---- MODULE Spec2Model ----
(***************************************************************************)
(* The graph-delta merge engine of the architecture-graph editor:          *)
(* mergeGraphDelta, validateGraphState and autoLayoutNodes, the change     *)
(* summary generateChangeSummary, and the chat pipeline that puts them     *)
(* together (POST /api/chat and processChatClientSide), with the schema    *)
(* shapes of lib/types.ts, as a state machine.                             *)
(*                                                                         *)
(* An optional field of a TypeScript object is modelled by its presence    *)
(* in the DOMAIN of the record: {} is the record with the empty domain.    *)
(***************************************************************************)
EXTENDS Integers, Sequences, FiniteSets, TLC

VARIABLES
  state,    \* the GraphState held by the caller (after a merge: its result);
            \* in a chat request its graphState, then the handler's newState
  prior,    \* the GraphState the last call of mergeGraphDelta was given
  delta,    \* the GraphDelta the call is given
  warned,   \* what the call passed to console.warn, in order
  inputs,   \* the argument objects of the call, as they are after the call
  now,      \* what new Date().toISOString() returned to the call
  layoutArgs, \* the arguments a call of autoLayoutNodes is given
  returned, \* what validateGraphState, autoLayoutNodes or
            \* generateChangeSummary returned; the response to a chat request
  store,    \* the row of the project in the graph table, NoRow when none
  chat,     \* a chat request: where it runs, its message, the outcome of the
            \* model call, and the handler's local values
  llmResponse, \* the text parseAndValidateDelta is given
  page,     \* the browser page: the graph state it holds and the messages
            \* of its chat panel
  reqs,     \* the requests in flight on the server, with their local values
  writes,   \* the writes to the graph table, in order
  pc        \* "chain": a project's life; otherwise the position of one call
            \* or of the handler of one chat request

vars ==
  <<state, prior, delta, warned, inputs, now, layoutArgs, returned, store,
    chat, llmResponse, page, reqs, writes, pc>>

(***************************************************************************)
(* Bounds and input universes                                              *)
(***************************************************************************)
\* the total number of entries in the five operation lists of one delta
MaxDeltaOps == 2

NodeIds == {"a", "b", "c"}
EdgeIds == {"e1", "e2"}
ProjectId == "p1"
\* the projects of the states a single call is tried on
ProjectIds == {ProjectId, "p2"}
\* meta.updatedAt of the states a call is given: the time they were created
CreatedAt == "t0"
\* what new Date().toISOString() may return at a merge: a later time
Times == {"t1"}

NoData == [k \in {} |-> ""]

Has(rec, field) == field \in DOMAIN rec

ToSet(seq) == {seq[i] : i \in DOMAIN seq}

\* types.ts GraphNodeSchema: every field required, data an object of optional keys
GraphNode(id, kind, label, x, y, data) ==
  [id |-> id, kind |-> kind, label |-> label,
   position |-> [x |-> x, y |-> y], data |-> data]

\* the nodes a delta may add
AddNodePool ==
  { GraphNode("a", "service", "A", 0, 0, NoData),
    GraphNode("a", "queue", "A1", 600, 100, [summary |-> "s2"]),
    GraphNode("b", "db", "B", 100, 100, [summary |-> "s1", methods |-> <<"m1">>]),
    GraphNode("c", "api", "C", 350, 100, [filePath |-> "c.ts"]) }

\* the partial updates a delta may carry (types.ts NodeUpdateSchema)
UpdatePool ==
  { [id |-> "a", label |-> "A2"],
    [id |-> "a", data |-> [summary |-> "s9"]],
    [id |-> "b", kind |-> "module",
     data |-> [methods |-> <<"m9">>, filePath |-> "b.ts"]] }

\* the edges a delta may add (types.ts GraphEdgeSchema: data optional)
AddEdgePool ==
  { [id |-> "e1", source |-> "a", target |-> "b", kind |-> "calls"],
    [id |-> "e1", source |-> "b", target |-> "c", kind |-> "depends_on",
     data |-> [description |-> "d1"]],
    [id |-> "e2", source |-> "b", target |-> "a", kind |-> "queries",
     data |-> NoData],
    [id |-> "e2", source |-> "c", target |-> "c", kind |-> "publishes"] }

\* the nodes and edges of the states a single call is tried on: they pass the
\* GraphState schema, which checks neither uniqueness nor references
StateNodes ==
  << GraphNode("a", "class", "OldA", 10, 20,
               [summary |-> "s0", methods |-> <<"m0", "m1">>]),
     GraphNode("b", "queue", "OldB", 0, 0, NoData),
     GraphNode("c", "module", "OldC", 260, 170, [fields |-> <<"f0">>]),
     GraphNode("a", "api", "TwinA", 510, 20, NoData) >>

StateEdges ==
  << [id |-> "e1", source |-> "a", target |-> "b", kind |-> "consumes",
      data |-> [description |-> "d0"]],
     [id |-> "e2", source |-> "b", target |-> "c", kind |-> "calls"],
     [id |-> "e1", source |-> "c", target |-> "a", kind |-> "queries"] >>

\* the states validateGraphState is tried on: up to MaxValidateItems nodes
\* and as many edges, ids repeated and endpoints missing at will
MaxValidateItems == 3

ValidateNodePool == {StateNodes[1], StateNodes[2]}

ValidateEdgePool ==
  { StateEdges[1], StateEdges[2],
    [id |-> "e2", source |-> "c", target |-> "c", kind |-> "publishes"] }

ValidateStates ==
  {[nodes |-> ns, edges |-> es,
    meta |-> [projectId |-> ProjectId, updatedAt |-> CreatedAt]] :
     ns \in UNION {[1 .. n -> ValidateNodePool] : n \in 0 .. MaxValidateItems},
     es \in UNION {[1 .. n -> ValidateEdgePool] : n \in 0 .. MaxValidateItems}}

\* the lists autoLayoutNodes is tried on: nodes without a position, that is
\* at (0,0), and nodes with x, y or both non-zero
MaxLayoutNodes == 5

LayoutNodePool ==
  { GraphNode("a", "service", "A", 0, 0, NoData),
    GraphNode("b", "db", "B", 100, 100, [summary |-> "s1", methods |-> <<"m1">>]),
    GraphNode("c", "api", "C", 0, 75, [filePath |-> "c.ts"]),
    GraphNode("a", "queue", "A1", 40, 0, [summary |-> "s2"]) }

\* startX and startY are left out, or startY is, or both are given
LayoutStarts ==
  { NoData, [startX |-> 40], [startX |-> 100, startY |-> 270] }

LayoutArgs ==
  {[f \in {"nodes"} \cup DOMAIN st |->
      IF f = "nodes" THEN ns ELSE st[f]] :
     ns \in UNION {[1 .. n -> LayoutNodePool] : n \in 0 .. MaxLayoutNodes},
     st \in LayoutStarts}

\* the arguments when autoLayoutNodes is not the function called
NoLayoutArgs == [nodes |-> << >>]

\* no row, and no chat request
NoRow == NoData
NoChat == NoData

\* no text, no page and no request in flight
NoText == << >>
NoPage == NoData
NoRequests == NoData

\* the subsequence of seq at the indices in keep, in order
RECURSIVE SubSeqAt(_, _)
SubSeqAt(seq, keep) ==
  IF seq = << >> THEN << >>
  ELSE LET n == Len(seq)
           front == SubSeqAt(SubSeq(seq, 1, n - 1), keep)
       IN IF n \in keep THEN Append(front, seq[n]) ELSE front

SubSeqs(seq) == {SubSeqAt(seq, keep) : keep \in SUBSET (1 .. Len(seq))}

FieldNames ==
  <<"addNodes", "updateNodes", "removeNodeIds", "addEdges", "removeEdgeIds">>

FieldPools == <<AddNodePool, UpdatePool, NodeIds, AddEdgePool, EdgeIds>>

\* the lengths of the five lists
DeltaSizes ==
  {s \in [1 .. 5 -> 0 .. MaxDeltaOps] :
     s[1] + s[2] + s[3] + s[4] + s[5] <= MaxDeltaOps}

DeltaLists ==
  UNION { [1 .. s[1] -> FieldPools[1]] \X [1 .. s[2] -> FieldPools[2]]
          \X [1 .. s[3] -> FieldPools[3]] \X [1 .. s[4] -> FieldPools[4]]
          \X [1 .. s[5] -> FieldPools[5]] : s \in DeltaSizes }

\* types.ts GraphDeltaSchema: all five lists optional
AllFields(t) ==
  [addNodes |-> t[1], updateNodes |-> t[2], removeNodeIds |-> t[3],
   addEdges |-> t[4], removeEdgeIds |-> t[5]]

NonEmptyFields(t) ==
  [f \in {FieldNames[i] : i \in {j \in 1 .. 5 : t[j] # << >>}} |->
     AllFields(t)[f]]

\* every delta is tried with its empty lists left out and with them written out
Deltas ==
  {NonEmptyFields(t) : t \in DeltaLists} \cup {AllFields(t) : t \in DeltaLists}

EmptyDelta == NoData

\* deltas that remove a node and add a node with its id, with no, one or two
\* updates of that id, with or without an edge at that node whose id an edge
\* of the state has, or a new edge at it
ReplaceDeltas ==
  { NonEmptyFields(<<<<n>>, us, <<n.id>>, es, << >>>>) :
      n \in {m \in AddNodePool : m.id \in {"a", "b"}},
      us \in { << >>,
               <<[id |-> "a", label |-> "A2"]>>,
               <<[id |-> "a", label |-> "A2"],
                 [id |-> "a", data |-> [summary |-> "s9"]]>>,
               <<[id |-> "b", kind |-> "module",
                  data |-> [methods |-> <<"m9">>, filePath |-> "b.ts"]]>> },
      es \in { << >>,
               <<[id |-> "e1", source |-> "a", target |-> "b", kind |-> "calls"]>>,
               <<[id |-> "e3", source |-> "b", target |-> "a", kind |-> "queries",
                  data |-> NoData]>> } }

(***************************************************************************)
(* JSON values, the zod schemas of types.ts, and parseAndValidateDelta      *)
(***************************************************************************)
\* a JSON value, as JSON.parse returns it: a string, a number, null, an
\* array of values, or an object whose members are values
JStr(s) == [str |-> s]
JNum(n) == [num |-> n]
JNull == [null |-> TRUE]
JArr(items) == [items |-> items]
JObj(members) == [members |-> members]

IsString(j) == "str" \in DOMAIN j
IsNumber(j) == "num" \in DOMAIN j
IsArray(j) == "items" \in DOMAIN j
IsObject(j) == "members" \in DOMAIN j

\* what safeParse returns
Failure == [success |-> FALSE]
Success(v) == [success |-> TRUE, data |-> v]

NodeKinds == {"service", "class", "module", "api", "queue", "db"}
EdgeKinds == {"calls", "depends_on", "publishes", "consumes", "queries"}

\* z.string(), z.number() and z.array(z.string())
StringSchema(j) == IF IsString(j) THEN Success(j.str) ELSE Failure

NumberSchema(j) == IF IsNumber(j) THEN Success(j.num) ELSE Failure

StringArraySchema(j) ==
  IF IsArray(j) /\ \A i \in DOMAIN j.items : IsString(j.items[i])
  THEN Success([i \in DOMAIN j.items |-> j.items[i].str])
  ELSE Failure

NodeKindSchema(j) ==
  IF IsString(j) /\ j.str \in NodeKinds THEN Success(j.str) ELSE Failure

EdgeKindSchema(j) ==
  IF IsString(j) /\ j.str \in EdgeKinds THEN Success(j.str) ELSE Failure

\* z.object: the keys of the schema are read, a key that is not optional
\* must be there, every key that is there must pass, other keys are dropped
PositionSchema(j) ==
  IF /\ IsObject(j)
     /\ {"x", "y"} \subseteq DOMAIN j.members
     /\ IsNumber(j.members.x)
     /\ IsNumber(j.members.y)
  THEN Success([x |-> j.members.x.num, y |-> j.members.y.num])
  ELSE Failure

\* the same keys pass GraphNodeDataSchema and its partial(): all are optional
GraphNodeDataSchema(j) ==
  IF ~IsObject(j) THEN Failure
  ELSE LET keys == DOMAIN j.members \cap {"summary", "methods", "fields", "filePath"}
           Parsed(k) == IF k \in {"summary", "filePath"}
                        THEN StringSchema(j.members[k])
                        ELSE StringArraySchema(j.members[k])
       IN IF \A k \in keys : Parsed(k).success
          THEN Success([k \in keys |-> Parsed(k).data])
          ELSE Failure

GraphNodeSchema(j) ==
  IF ~IsObject(j) THEN Failure
  ELSE LET keys == {"id", "kind", "label", "position", "data"}
           Parsed(k) == CASE k \in {"id", "label"} -> StringSchema(j.members[k])
                          [] k = "kind" -> NodeKindSchema(j.members[k])
                          [] k = "position" -> PositionSchema(j.members[k])
                          [] k = "data" -> GraphNodeDataSchema(j.members[k])
       IN IF keys \subseteq DOMAIN j.members /\ \A k \in keys : Parsed(k).success
          THEN Success([k \in keys |-> Parsed(k).data])
          ELSE Failure

GraphEdgeDataSchema(j) ==
  IF ~IsObject(j) THEN Failure
  ELSE LET keys == DOMAIN j.members \cap {"description"}
       IN IF \A k \in keys : IsString(j.members[k])
          THEN Success([k \in keys |-> j.members[k].str])
          ELSE Failure

GraphEdgeSchema(j) ==
  IF ~IsObject(j) THEN Failure
  ELSE LET required == {"id", "source", "target", "kind"}
           keys == DOMAIN j.members \cap (required \cup {"data"})
           Parsed(k) == CASE k \in {"id", "source", "target"} ->
                               StringSchema(j.members[k])
                          [] k = "kind" -> EdgeKindSchema(j.members[k])
                          [] k = "data" -> GraphEdgeDataSchema(j.members[k])
       IN IF required \subseteq keys /\ \A k \in keys : Parsed(k).success
          THEN Success([k \in keys |-> Parsed(k).data])
          ELSE Failure

\* types.ts GraphMetaSchema and GraphStateSchema: all keys required
GraphMetaSchema(j) ==
  IF ~IsObject(j) THEN Failure
  ELSE LET keys == {"projectId", "updatedAt"}
       IN IF keys \subseteq DOMAIN j.members
             /\ \A k \in keys : StringSchema(j.members[k]).success
          THEN Success([k \in keys |-> j.members[k].str])
          ELSE Failure

GraphStateSchema(j) ==
  IF ~IsObject(j) THEN Failure
  ELSE LET m == j.members
           Item(k, e) == IF k = "nodes" THEN GraphNodeSchema(e)
                         ELSE GraphEdgeSchema(e)
           Passes(k) == /\ IsArray(m[k])
                        /\ \A i \in DOMAIN m[k].items :
                             Item(k, m[k].items[i]).success
       IN IF /\ {"nodes", "edges", "meta"} \subseteq DOMAIN m
             /\ Passes("nodes") /\ Passes("edges")
             /\ GraphMetaSchema(m.meta).success
          THEN Success([nodes |-> [i \in DOMAIN m.nodes.items |->
                                     GraphNodeSchema(m.nodes.items[i]).data],
                        edges |-> [i \in DOMAIN m.edges.items |->
                                     GraphEdgeSchema(m.edges.items[i]).data],
                        meta |-> GraphMetaSchema(m.meta).data])
          ELSE Failure

NodeUpdateSchema(j) ==
  IF ~IsObject(j) THEN Failure
  ELSE LET keys == DOMAIN j.members \cap {"id", "label", "kind", "data"}
           Parsed(k) == CASE k \in {"id", "label"} -> StringSchema(j.members[k])
                          [] k = "kind" -> NodeKindSchema(j.members[k])
                          [] k = "data" -> GraphNodeDataSchema(j.members[k])
       IN IF "id" \in keys /\ \A k \in keys : Parsed(k).success
          THEN Success([k \in keys |-> Parsed(k).data])
          ELSE Failure

\* mutant of GraphDeltaSchema: a list that is not an array is left out, and
\* so is an entry that does not pass
GraphDeltaSchema_SkipInvalid(j) ==
  IF ~IsObject(j) THEN Success(NoData)
  ELSE LET keys == {k \in DOMAIN j.members \cap ToSet(FieldNames) :
                      IsArray(j.members[k])}
           Entry(k, e) == CASE k = "addNodes" -> GraphNodeSchema(e)
                            [] k = "updateNodes" -> NodeUpdateSchema(e)
                            [] k = "addEdges" -> GraphEdgeSchema(e)
                            [] OTHER -> StringSchema(e)
           Kept(k) == SelectSeq(j.members[k].items, LAMBDA e : Entry(k, e).success)
       IN Success([k \in keys |-> [i \in DOMAIN Kept(k) |-> Entry(k, Kept(k)[i]).data]])

\* the five lists are optional; a list that is there is an array whose every
\* entry passes the schema of its kind
GraphDeltaSchema(j) ==
  IF ~IsObject(j) THEN Failure
  ELSE LET keys == DOMAIN j.members \cap ToSet(FieldNames)
           Entry(k, e) == CASE k = "addNodes" -> GraphNodeSchema(e)
                            [] k = "updateNodes" -> NodeUpdateSchema(e)
                            [] k = "addEdges" -> GraphEdgeSchema(e)
                            [] OTHER -> StringSchema(e)
           Passes(k) == /\ IsArray(j.members[k])
                        /\ \A i \in DOMAIN j.members[k].items :
                             Entry(k, j.members[k].items[i]).success
       IN IF \A k \in keys : Passes(k)
          THEN Success([k \in keys |->
                         [i \in DOMAIN j.members[k].items |->
                            Entry(k, j.members[k].items[i]).data]])
          ELSE Failure

\* A text is a sequence of tokens: white space, the fence that names json
\* and the fence that names nothing, a word of prose, the punctuation of JSON, the members of an object
\* between its braces, and a value that has no brace and no bracket
Tok(c) == [c |-> c]
Ws == Tok(" ")
FenceJson == Tok("fence json")
Fence == Tok("fence")
Prose == Tok("Here")
Open == Tok("{")
Close == Tok("}")
ArrOpen == Tok("[")
ArrClose == Tok("]")
Comma == Tok(",")
Members(m) == [c |-> "members", members |-> m]
Atom(j) == [c |-> "atom", json |-> j]

\* String.prototype.trim
RECURSIVE trim(_)
trim(text) ==
  IF text # << >> /\ Head(text) = Ws THEN trim(Tail(text))
  ELSE IF text # << >> /\ text[Len(text)] = Ws
       THEN trim(SubSeq(text, 1, Len(text) - 1))
       ELSE text

\* mutant of StripFences: only the fence that names json is cut off the start
StripFences_JsonOnly(text) ==
  LET cut == IF text # << >> /\ Head(text) = FenceJson THEN Tail(text) ELSE text
  IN IF cut # << >> /\ cut[Len(cut)] = Fence
     THEN SubSeq(cut, 1, Len(cut) - 1)
     ELSE cut

\* a leading fence, with json or without, is cut off, then a trailing fence
StripFences(text) ==
  LET cut == IF text # << >> /\ Head(text) \in {FenceJson, Fence}
             THEN Tail(text)
             ELSE text
  IN IF cut # << >> /\ cut[Len(cut)] = Fence
     THEN SubSeq(cut, 1, Len(cut) - 1)
     ELSE cut

\* the text between the fences
Cleaned(response) == trim(StripFences(trim(response)))

\* JSON.parse: white space between tokens is skipped; the text is one value,
\* an object, an array of objects or a value without braces, or it is
\* refused with a SyntaxError
IsObjectText(toks) ==
  \/ toks = <<Open, Close>>
  \/ /\ Len(toks) = 3
     /\ toks[1] = Open
     /\ "members" \in DOMAIN toks[2]
     /\ toks[3] = Close

ObjectOfText(toks) ==
  IF Len(toks) = 2 THEN JObj(NoData) ELSE JObj(toks[2].members)

IsArrayText(toks) ==
  \/ toks = <<ArrOpen, ArrClose>>
  \/ /\ Len(toks) >= 5
     /\ Len(toks) % 4 = 1
     /\ toks[1] = ArrOpen
     /\ \A k \in 1 .. (Len(toks) \div 4) :
          /\ IsObjectText(SubSeq(toks, 4 * k - 2, 4 * k))
          /\ toks[4 * k + 1] = (IF 4 * k + 1 = Len(toks) THEN ArrClose ELSE Comma)

JSONparse(text) ==
  LET toks == SelectSeq(text, LAMBDA tok : tok # Ws)
  IN CASE IsObjectText(toks) -> [value |-> ObjectOfText(toks)]
       [] Len(toks) = 1 /\ "json" \in DOMAIN toks[1] -> [value |-> toks[1].json]
       [] IsArrayText(toks) ->
            [value |-> JArr([k \in 1 .. (Len(toks) \div 4) |->
                              ObjectOfText(SubSeq(toks, 4 * k - 2, 4 * k))])]
       [] OTHER -> [thrown |-> "SyntaxError"]

\* mutant of JsonMatch: from the first { to the first } after it
JsonMatch_Shortest(cleaned) ==
  LET opens == {i \in DOMAIN cleaned : cleaned[i] = Open}
      first == CHOOSE i \in opens : \A k \in opens : i <= k
      closes == {i \in DOMAIN cleaned : cleaned[i] = Close /\ i > first}
      last == CHOOSE i \in closes : \A k \in closes : i <= k
  IN IF opens = {} \/ closes = {} THEN [found |-> FALSE]
     ELSE [found |-> TRUE, text |-> SubSeq(cleaned, first, last)]

\* cleaned.match(/\{[\s\S]*\}/): from the first { to the last } after it
JsonMatch(cleaned) ==
  LET opens == {i \in DOMAIN cleaned : cleaned[i] = Open}
      first == CHOOSE i \in opens : \A k \in opens : i <= k
      closes == {i \in DOMAIN cleaned : cleaned[i] = Close /\ i > first}
      last == CHOOSE i \in closes : \A k \in closes : k <= i
  IN IF opens = {} \/ closes = {} THEN [found |-> FALSE]
     ELSE [found |-> TRUE, text |-> SubSeq(cleaned, first, last)]

\* the value parsed: the cleaned text's, or else the matched text's
ParsedValue(cleaned) ==
  LET direct == JSONparse(cleaned)
      jsonMatch == JsonMatch(cleaned)
  IN IF "value" \in DOMAIN direct THEN direct
     ELSE IF jsonMatch.found THEN JSONparse(jsonMatch.text)
          ELSE [thrown |-> "Could not find valid JSON in response"]

\* mutant of parseAndValidateDelta: a value the schema refuses yields the
\* lists of it that pass, and a text that is not JSON yields the empty delta
parseAndValidateDelta_Lenient(response) ==
  LET cleaned == Cleaned(response)
      direct == "value" \in DOMAIN JSONparse(cleaned)
      parsed == ParsedValue(cleaned)
      locals == [cleaned |-> cleaned, direct |-> direct]
  IN IF "thrown" \in DOMAIN parsed
     THEN locals @@ [delta |-> NoData]
     ELSE locals @@ [parsed |-> parsed.value,
                     delta |-> GraphDeltaSchema_SkipInvalid(parsed.value).data]

\* parseAndValidateDelta(response): the delta, or the error thrown; the
\* values of its locals cleaned and parsed are kept with the outcome
parseAndValidateDelta(response) ==
  LET cleaned == Cleaned(response)
      direct == "value" \in DOMAIN JSONparse(cleaned)
      parsed == ParsedValue(cleaned)
      locals == [cleaned |-> cleaned, direct |-> direct]
  IN IF "thrown" \in DOMAIN parsed
     THEN locals @@ [thrown |-> parsed.thrown]
     ELSE LET result == GraphDeltaSchema(parsed.value)
          IN locals @@ [parsed |-> parsed.value]
               @@ (IF result.success THEN [delta |-> result.data]
                   ELSE [thrown |-> "Invalid GraphDelta"])

(***************************************************************************)
(* The texts parseAndValidateDelta is tried on                             *)
(***************************************************************************)
\* JSON.stringify of strings, of the data of a node or an edge, of a node,
\* an update, an edge and a delta
JsonOfStrings(list) == JArr([i \in DOMAIN list |-> JStr(list[i])])

JsonOfData(data) ==
  JObj([k \in DOMAIN data |->
          IF k \in {"methods", "fields"} THEN JsonOfStrings(data[k])
          ELSE JStr(data[k])])

JsonOfNode(n) ==
  JObj([id |-> JStr(n.id), kind |-> JStr(n.kind), label |-> JStr(n.label),
        position |-> JObj([x |-> JNum(n.position.x), y |-> JNum(n.position.y)]),
        data |-> JsonOfData(n.data)])

JsonOfRecord(r) ==
  JObj([k \in DOMAIN r |-> IF k = "data" THEN JsonOfData(r.data) ELSE JStr(r[k])])

JsonOfDelta(d) ==
  JObj([k \in DOMAIN d |->
          JArr([i \in DOMAIN d[k] |->
                  CASE k = "addNodes" -> JsonOfNode(d[k][i])
                    [] k \in {"updateNodes", "addEdges"} -> JsonOfRecord(d[k][i])
                    [] OTHER -> JStr(d[k][i])])])

\* the text of a JSON value
ObjectText(j) ==
  IF j.members = NoData THEN <<Open, Close>>
  ELSE <<Open, Members(j.members), Close>>

RECURSIVE ObjectsText(_)
ObjectsText(items) ==
  IF items = << >> THEN << >>
  ELSE ObjectText(Head(items))
       \o (IF Len(items) = 1 THEN << >> ELSE <<Comma>> \o ObjectsText(Tail(items)))

TextOf(j) ==
  CASE IsObject(j) -> ObjectText(j)
    [] IsArray(j) -> <<ArrOpen>> \o ObjectsText(j.items) \o <<ArrClose>>
    [] OTHER -> <<Atom(j)>>

\* deltas the schema accepts
ParseDeltas ==
  { EmptyDelta,
    [addNodes |-> <<GraphNode("a", "service", "A", 0, 0, NoData),
                    GraphNode("b", "db", "B", 100, 100,
                              [summary |-> "s1", methods |-> <<"m1">>])>>,
     addEdges |-> <<[id |-> "e1", source |-> "a", target |-> "b",
                     kind |-> "calls"]>>],
    [updateNodes |-> <<[id |-> "b", kind |-> "module",
                        data |-> [methods |-> <<"m9">>, filePath |-> "b.ts"]]>>,
     removeNodeIds |-> <<"c">>,
     addEdges |-> <<[id |-> "e2", source |-> "b", target |-> "a",
                     kind |-> "queries", data |-> [description |-> "d1"]]>>,
     removeEdgeIds |-> << >>],
    [addNodes |-> << >>, updateNodes |-> << >>, removeNodeIds |-> << >>,
     addEdges |-> << >>, removeEdgeIds |-> << >>] }

\* a node and an edge as the model may write them
GoodNode == JsonOfNode(GraphNode("c", "api", "C", 350, 100, [filePath |-> "c.ts"]))
GoodEdge ==
  JsonOfRecord([id |-> "e1", source |-> "a", target |-> "c", kind |-> "calls"])

\* the members of an object without one of them, and with one more
Without(j, key) == JObj([k \in DOMAIN j.members \ {key} |-> j.members[k]])
With(j, key, value) ==
  JObj([k \in DOMAIN j.members \cup {key} |->
          IF k = key THEN value ELSE j.members[k]])

\* values the schema accepts, with the delta each stands for: a key the
\* schema does not name is dropped
GoodValues ==
  {[json |-> JsonOfDelta(d), delta |-> d] : d \in ParseDeltas}
    \cup
  { [json |-> With(JsonOfDelta(EmptyDelta), "explanation", JStr("done")),
     delta |-> EmptyDelta],
    [json |-> JObj([addNodes |-> JArr(<<With(GoodNode, "color", JStr("red"))>>)]),
     delta |-> [addNodes |->
                  <<GraphNode("c", "api", "C", 350, 100, [filePath |-> "c.ts"])>>]] }

\* values the schema refuses: not an object; a field of the wrong type; an
\* entry without a required field; a kind outside its enum
NotObjects ==
  { JNull, JNum(42), JStr("add a queue"), JArr(<< >>),
    JArr(<<JsonOfDelta(EmptyDelta), JObj([removeNodeIds |-> JArr(<<JStr("a")>>)])>>) }

WrongTypes ==
  { JObj([addNodes |-> JObj(NoData)]),
    JObj([removeNodeIds |-> JArr(<<JStr("a"), JNum(1)>>)]),
    JObj([removeEdgeIds |-> JNull]),
    JObj([addNodes |-> JArr(<<With(GoodNode, "position",
                                   JObj([x |-> JStr("0"), y |-> JNum(0)]))>>)]),
    JObj([addEdges |-> JArr(<<With(GoodEdge, "data", JNull)>>)]),
    JObj([updateNodes |-> JArr(<<JObj([id |-> JStr("a"), label |-> JNum(1)])>>)]) }

MissingFields ==
  { JObj([addNodes |-> JArr(<<Without(GoodNode, "data")>>)]),
    JObj([addNodes |-> JArr(<<GoodNode, Without(GoodNode, "position")>>),
          removeNodeIds |-> JArr(<<JStr("a")>>)]),
    JObj([addEdges |-> JArr(<<Without(GoodEdge, "target"), GoodEdge>>)]),
    JObj([updateNodes |-> JArr(<<JObj([label |-> JStr("A2")])>>)]) }

WrongKinds ==
  { JObj([addNodes |-> JArr(<<With(GoodNode, "kind", JStr("database"))>>)]),
    JObj([addEdges |-> JArr(<<GoodEdge, With(GoodEdge, "kind", JStr("uses"))>>)]),
    JObj([updateNodes |-> JArr(<<JObj([id |-> JStr("a"), kind |-> JStr("calls")])>>)]) }

BadValues == NotObjects \cup WrongTypes \cup MissingFields \cup WrongKinds

\* what stands between the prefix and the suffix: the text of a value, no
\* text, braces around something that is not JSON, or two objects with prose
\* between them
Cores ==
  {[text |-> TextOf(v.json), value |-> v.json, delta |-> v.delta] : v \in GoodValues}
    \cup {[text |-> TextOf(j), value |-> j] : j \in BadValues}
    \cup { [text |-> << >>],
           [text |-> <<Open, Prose, Close>>],
           [text |-> TextOf(JsonOfDelta(EmptyDelta)) \o <<Ws, Prose, Ws>>
                       \o TextOf(JObj([removeNodeIds |-> JArr(<<JStr("a")>>)]))] }

Prefixes ==
  { << >>, <<Ws>>, <<FenceJson>>, <<Fence>>, <<Ws, FenceJson, Ws, Ws>>,
    <<Ws, Fence, Ws>>, <<FenceJson, FenceJson>>, <<Fence, Ws, Fence>>,
    <<Prose, Ws>>, <<Prose, Ws, FenceJson, Ws>>, <<Prose, Open, Close, Ws>> }

Suffixes ==
  { << >>, <<Ws>>, <<Fence>>, <<Ws, Fence, Ws>>, <<Fence, Ws, Fence>>,
    <<Ws, Prose>>, <<Fence, Ws, Prose>>, <<Ws, Prose, Close>> }

(***************************************************************************)
(* llm-prompt: trimGraphStateForPrompt                                     *)
(***************************************************************************)
MAX_NODES == 50
MAX_EDGES == 100

\* console.warn of a truncation
TrimWarning(what, from, to) == [trimming |-> what, from |-> from, to |-> to]

\* Array.prototype.slice(0, n)
SliceTo(list, n) == SubSeq(list, 1, IF Len(list) < n THEN Len(list) ELSE n)

\* mutant of trimGraphStateForPrompt: the edges are cut to MAX_EDGES before
\* they are filtered
trimGraphStateForPrompt_CapFirst(s) ==
  LET cutNodes == Len(s.nodes) > MAX_NODES
      nodes == IF cutNodes THEN SliceTo(s.nodes, MAX_NODES) ELSE s.nodes
      nodeIds == {nodes[i].id : i \in DOMAIN nodes}
      cutEdges == Len(s.edges) > MAX_EDGES
      capped == IF cutEdges THEN SliceTo(s.edges, MAX_EDGES) ELSE s.edges
      edges == IF cutNodes
               THEN SelectSeq(capped, LAMBDA e : e.source \in nodeIds
                                                   /\ e.target \in nodeIds)
               ELSE capped
  IN [state |-> [nodes |-> nodes, edges |-> edges, meta |-> s.meta],
      warnings |->
        (IF cutNodes THEN <<TrimWarning("nodes", Len(s.nodes), MAX_NODES)>>
         ELSE << >>)
        \o (IF cutEdges THEN <<TrimWarning("edges", Len(s.edges), MAX_EDGES)>>
            ELSE << >>)]

\* trimGraphStateForPrompt(state): the state that is written into the prompt
\* and what console.warn is given
trimGraphStateForPrompt(s) ==
  LET cutNodes == Len(s.nodes) > MAX_NODES
      nodes == IF cutNodes THEN SliceTo(s.nodes, MAX_NODES) ELSE s.nodes
      nodeIds == {nodes[i].id : i \in DOMAIN nodes}
      filtered == IF cutNodes
                  THEN SelectSeq(s.edges, LAMBDA e : e.source \in nodeIds
                                                      /\ e.target \in nodeIds)
                  ELSE s.edges
      cutEdges == Len(filtered) > MAX_EDGES
      edges == IF cutEdges THEN SliceTo(filtered, MAX_EDGES) ELSE filtered
  IN [state |-> [nodes |-> nodes, edges |-> edges, meta |-> s.meta],
      warnings |->
        (IF cutNodes THEN <<TrimWarning("nodes", Len(s.nodes), MAX_NODES)>>
         ELSE << >>)
        \o (IF cutEdges THEN <<TrimWarning("edges", Len(filtered), MAX_EDGES)>>
            ELSE << >>)]

\* a slip in the truncation: the caller's lists are cut in place
trimInputAfter_InPlace(s) == trimGraphStateForPrompt(s).state

\* the caller's state object after trimGraphStateForPrompt: slice and filter
\* make new arrays, and only the locals and a new object literal are written
trimInputAfter(s) == s

\* the states the prompt is built from: n nodes with the ids "1" to n, and m
\* edges between nodes with ids up to a span, which may pass the node cap
\* and the number of nodes
PromptNodeCounts == {0, 1, MAX_NODES, MAX_NODES + 1, MAX_NODES + 10}
PromptEdgeCounts == {0, 1, MAX_EDGES, MAX_EDGES + 1, MAX_EDGES + 30}
PromptSpans == {1, MAX_NODES - 10, MAX_NODES + 5, MAX_NODES + 20}

PromptState(n, m, span) ==
  [nodes |-> [i \in 1 .. n |-> GraphNode(ToString(i), "service", "N", 0, 0, NoData)],
   edges |-> [k \in 1 .. m |->
                [id |-> ToString(k),
                 source |-> ToString((k % span) + 1),
                 target |-> ToString(((k + 1) % span) + 1),
                 kind |-> "calls"]],
   meta |-> [projectId |-> ProjectId, updatedAt |-> CreatedAt]]

PromptStates ==
  {PromptState(n, m, span) :
     n \in PromptNodeCounts, m \in PromptEdgeCounts, span \in PromptSpans}

\* the graph states a chat request is tried on, as canonical state or as the
\* graphState of the request: neither the body of the request nor the text
\* of the row is checked against the schema's uniqueness or references
ChatStates ==
  {[nodes |-> ns, edges |-> es,
    meta |-> [projectId |-> ProjectId, updatedAt |-> CreatedAt]] :
     ns \in SubSeqs(SubSeq(StateNodes, 1, 3)),
     es \in SubSeqs(SubSeq(StateEdges, 1, 2))}

\* the graphState of a request that finds a row with another state
StaleState ==
  [nodes |-> <<StateNodes[4]>>, edges |-> << >>,
   meta |-> [projectId |-> ProjectId, updatedAt |-> CreatedAt]]

\* the row of the project: its text parses to a state, or does not parse
Row(s) == [parses |-> TRUE, state |-> s]
CorruptRow == [parses |-> FALSE]

\* texts of the model that are not the text of a delta: prose, braces around
\* something that is not JSON, a delta with an entry that lacks a field, and
\* a delta between fences with a kind outside its enum
BadReplyTexts ==
  { <<Prose, Ws, Prose>>, <<Open, Prose, Close>> }
    \cup {TextOf(j) : j \in MissingFields}
    \cup {<<FenceJson, Ws>> \o TextOf(j) \o <<Ws, Fence>> : j \in WrongKinds}

\* what the model call comes to: it fails, or it returns a text; the text
\* is the JSON text of a delta, bare or between fences with prose before
\* them, or it is none
Replies ==
  {[outcome |-> "fails"]}
    \cup {[outcome |-> "text", text |-> TextOf(JsonOfDelta(d))] : d \in Deltas}
    \cup {[outcome |-> "text",
           text |-> <<Prose, Ws, FenceJson, Ws>> \o TextOf(JsonOfDelta(d))
                      \o <<Ws, Fence>>] : d \in ParseDeltas}
    \cup {[outcome |-> "text", text |-> t] : t \in BadReplyTexts}

(***************************************************************************)
(* types.ts                                                                *)
(***************************************************************************)
createEmptyGraphState(projectId, t) ==
  [nodes |-> << >>, edges |-> << >>,
   meta |-> [projectId |-> projectId, updatedAt |-> t]]

AnyStates ==
  {[nodes |-> ns, edges |-> es,
    meta |-> [projectId |-> p, updatedAt |-> CreatedAt]] :
     ns \in SubSeqs(StateNodes), es \in SubSeqs(StateEdges),
     p \in ProjectIds}

(***************************************************************************)
(* graph-merge: mergeGraphDelta                                            *)
(***************************************************************************)
\* delta.f && delta.f.length > 0
NonEmpty(d, f) == Has(d, f) /\ Len(d[f]) > 0

\* step 1, nodes
RemoveNodes(nodes, d) ==
  IF NonEmpty(d, "removeNodeIds")
  THEN LET removeSet == ToSet(d.removeNodeIds)
       IN SelectSeq(nodes, LAMBDA n : n.id \notin removeSet)
  ELSE nodes

\* a slip in step 1: only the source of an edge is looked up in removeSet
RemoveOrphanEdges_SourceOnly(edges, d) ==
  IF NonEmpty(d, "removeNodeIds")
  THEN LET removeSet == ToSet(d.removeNodeIds)
       IN SelectSeq(edges, LAMBDA e : e.source \notin removeSet)
  ELSE edges

\* a slip in step 1: the edges of removed nodes are left in place
RemoveOrphanEdges_Forgotten(edges, d) == edges

\* step 1, edges that reference removed nodes
RemoveOrphanEdges(edges, d) ==
  IF NonEmpty(d, "removeNodeIds")
  THEN LET removeSet == ToSet(d.removeNodeIds)
       IN SelectSeq(edges, LAMBDA e : e.source \notin removeSet
                                      /\ e.target \notin removeSet)
  ELSE edges

\* a slip in step 2: the guard tests the list only for presence and the
\* filter keeps the listed edges instead of the others
RemoveEdges_KeepListed(edges, d) ==
  IF Has(d, "removeEdgeIds")
  THEN LET removeSet == ToSet(d.removeEdgeIds)
       IN SelectSeq(edges, LAMBDA e : e.id \in removeSet)
  ELSE edges

\* step 2
RemoveEdges(edges, d) ==
  IF NonEmpty(d, "removeEdgeIds")
  THEN LET removeSet == ToSet(d.removeEdgeIds)
       IN SelectSeq(edges, LAMBDA e : e.id \notin removeSet)
  ELSE edges

\* step 3: the for loop over delta.addNodes
RECURSIVE AddNodesLoop(_, _, _)
AddNodesLoop(nodes, existingIds, rest) ==
  IF rest = << >> THEN nodes
  ELSE LET newNode == Head(rest)
       IN IF newNode.id \notin existingIds
          THEN AddNodesLoop(Append(nodes, newNode),
                            existingIds \cup {newNode.id}, Tail(rest))
          ELSE AddNodesLoop(nodes, existingIds, Tail(rest))

\* a slip in step 3: existingIds starts empty instead of holding the ids of
\* the nodes already there
AddNodes_UnseededIds(nodes, d) ==
  IF NonEmpty(d, "addNodes")
  THEN AddNodesLoop(nodes, {}, d.addNodes)
  ELSE nodes

\* a slip in step 3: an entry with a known id replaces the node that has it
AddNodes_Overwrite(nodes, d) ==
  IF NonEmpty(d, "addNodes")
  THEN LET known == {n.id : n \in ToSet(nodes)}
           entry(id) == d.addNodes[CHOOSE i \in DOMAIN d.addNodes :
                                     d.addNodes[i].id = id]
           replaced == [i \in DOMAIN nodes |->
                          IF nodes[i].id \in {n.id : n \in ToSet(d.addNodes)}
                          THEN entry(nodes[i].id) ELSE nodes[i]]
       IN AddNodesLoop(replaced, known, d.addNodes)
  ELSE nodes

\* a slip in step 3: the id of a pushed node is not added to existingIds, so
\* a second entry with that id is pushed as well
AddNodes_NoMemo(nodes, d) ==
  IF NonEmpty(d, "addNodes")
  THEN LET existingIds == {n.id : n \in ToSet(nodes)}
       IN nodes \o SelectSeq(d.addNodes, LAMBDA n : n.id \notin existingIds)
  ELSE nodes

AddNodes(nodes, d) ==
  IF NonEmpty(d, "addNodes")
  THEN AddNodesLoop(nodes, {n.id : n \in ToSet(nodes)}, d.addNodes)
  ELSE nodes

\* new Map(updateNodes.map(u => [u.id, u])): a later entry replaces an
\* earlier one with the same id
updateMap(updates) ==
  [id \in {u.id : u \in ToSet(updates)} |->
     LET last == CHOOSE i \in DOMAIN updates :
                   /\ updates[i].id = id
                   /\ \A j \in DOMAIN updates : updates[j].id = id => j <= i
     IN updates[last]]

\* { ...a, ...b }
Spread(a, b) ==
  [k \in DOMAIN a \cup DOMAIN b |-> IF k \in DOMAIN b THEN b[k] ELSE a[k]]

\* the object built for a node that has an update
UpdatedNode(node, update) ==
  [node EXCEPT
     !.label = IF Has(update, "label") THEN update.label ELSE node.label,
     !.kind = IF Has(update, "kind") THEN update.kind ELSE node.kind,
     !.data = IF Has(update, "data") THEN Spread(node.data, update.data)
              ELSE node.data]

\* a slip in step 4: an update whose id is unknown creates the node
UpdateNodes_Upsert(nodes, d) ==
  IF NonEmpty(d, "updateNodes")
  THEN LET map == updateMap(d.updateNodes)
           updated == [i \in DOMAIN nodes |->
                         IF nodes[i].id \in DOMAIN map
                         THEN UpdatedNode(nodes[i], map[nodes[i].id])
                         ELSE nodes[i]]
           blank(id) == [id |-> id, kind |-> "service", label |-> id,
                         position |-> [x |-> 0, y |-> 0], data |-> NoData]
           created == SelectSeq([i \in DOMAIN d.updateNodes |->
                                   UpdatedNode(blank(d.updateNodes[i].id),
                                               d.updateNodes[i])],
                                LAMBDA n : n.id \notin {m.id : m \in ToSet(nodes)})
       IN updated \o created
  ELSE nodes

\* step 4
UpdateNodes(nodes, d) ==
  IF NonEmpty(d, "updateNodes")
  THEN LET map == updateMap(d.updateNodes)
       IN [i \in DOMAIN nodes |->
             IF nodes[i].id \in DOMAIN map
             THEN UpdatedNode(nodes[i], map[nodes[i].id])
             ELSE nodes[i]]
  ELSE nodes

\* a slip in step 5: only the source of a new edge is looked up
EndpointsExist_SourceOnly(nodeIds, newEdge) == newEdge.source \in nodeIds

\* whether step 5 accepts the endpoints of newEdge
EndpointsExist(nodeIds, newEdge) ==
  newEdge.source \in nodeIds /\ newEdge.target \in nodeIds

\* the text of the console.warn of step 5
SkipWarning(newEdge) ==
  [skipped |-> newEdge.id, source |-> newEdge.source, target |-> newEdge.target]

\* step 5: the for loop over delta.addEdges; acc holds edges and warnings
RECURSIVE AddEdgesLoop(_, _, _, _)
AddEdgesLoop(acc, nodeIds, existingEdgeIds, rest) ==
  IF rest = << >> THEN acc
  ELSE LET newEdge == Head(rest)
       IN IF EndpointsExist(nodeIds, newEdge)
          THEN IF newEdge.id \notin existingEdgeIds
               THEN AddEdgesLoop([acc EXCEPT !.edges = Append(@, newEdge)],
                                 nodeIds, existingEdgeIds \cup {newEdge.id},
                                 Tail(rest))
               ELSE AddEdgesLoop(acc, nodeIds, existingEdgeIds, Tail(rest))
          ELSE AddEdgesLoop([acc EXCEPT !.warnings = Append(@, SkipWarning(newEdge))],
                            nodeIds, existingEdgeIds, Tail(rest))

\* a slip in step 5: existingEdgeIds starts empty instead of holding the ids
\* of the edges already there
AddEdges_UnseededIds(nodes, edges, d) ==
  IF NonEmpty(d, "addEdges")
  THEN AddEdgesLoop([edges |-> edges, warnings |-> << >>],
                    {n.id : n \in ToSet(nodes)}, {}, d.addEdges)
  ELSE [edges |-> edges, warnings |-> << >>]

AddEdges(nodes, edges, d) ==
  IF NonEmpty(d, "addEdges")
  THEN AddEdgesLoop([edges |-> edges, warnings |-> << >>],
                    {n.id : n \in ToSet(nodes)},
                    {e.id : e \in ToSet(edges)}, d.addEdges)
  ELSE [edges |-> edges, warnings |-> << >>]

\* a slip in the order of the steps: step 4 runs before step 3, so a node the
\* delta adds misses the delta's update of it
MergedNodes_UpdateFirst(s, d) == AddNodes(UpdateNodes(RemoveNodes(s.nodes, d), d), d)

\* the node list after steps 1, 3 and 4
MergedNodes(s, d) == UpdateNodes(AddNodes(RemoveNodes(s.nodes, d), d), d)

\* the edge list after steps 1 and 2
KeptEdges(s, d) == RemoveEdges(RemoveOrphanEdges(s.edges, d), d)

\* a slip in the order of the steps: new edges are checked against the nodes
\* left by step 1, before step 3 has added the delta's nodes
mergeGraphDelta_EdgesBeforeNodes(s, d, t) ==
  [nodes |-> MergedNodes(s, d),
   edges |-> AddEdges(RemoveNodes(s.nodes, d), KeptEdges(s, d), d).edges,
   meta |-> [s.meta EXCEPT !.updatedAt = t]]

\* a slip in the last step: the input's meta is returned as it is
mergeGraphDelta_StaleMeta(s, d, t) ==
  [nodes |-> MergedNodes(s, d),
   edges |-> AddEdges(MergedNodes(s, d), KeptEdges(s, d), d).edges,
   meta |-> s.meta]

mergeGraphDelta(s, d, t) ==
  [nodes |-> MergedNodes(s, d),
   edges |-> AddEdges(MergedNodes(s, d), KeptEdges(s, d), d).edges,
   meta |-> [s.meta EXCEPT !.updatedAt = t]]

\* what one call of mergeGraphDelta writes with console.warn
mergeWarnings(s, d) ==
  AddEdges(MergedNodes(s, d), KeptEdges(s, d), d).warnings

(***************************************************************************)
(* graph-merge: what mergeGraphDelta writes to the objects it is given     *)
(*                                                                         *)
(* The local variables nodes and edges refer to arrays.  An array is       *)
(* modelled with its items and with whether it is the caller's own array   *)
(* (shared) or one made by the call.  filter and map make new arrays; push *)
(* writes to the array the variable refers to.                             *)
(***************************************************************************)
\* a slip in the first two lines: the local variable is bound to the
\* caller's array itself
SpreadCopy_Alias(list) == [shared |-> TRUE, items |-> list]

\* [...list]
SpreadCopy(list) == [shared |-> FALSE, items |-> list]

\* the array `nodes` refers to when step 3 pushes to it
NodesAtPush(s, d) ==
  IF NonEmpty(d, "removeNodeIds")
  THEN [shared |-> FALSE, items |-> RemoveNodes(s.nodes, d)]
  ELSE SpreadCopy(s.nodes)

\* the array `edges` refers to when step 5 pushes to it
EdgesAtPush(s, d) ==
  IF NonEmpty(d, "removeNodeIds") \/ NonEmpty(d, "removeEdgeIds")
  THEN [shared |-> FALSE, items |-> KeptEdges(s, d)]
  ELSE SpreadCopy(s.edges)

\* the caller's state and delta objects after the call: the delta and the
\* meta object are only read (the new meta is an object literal)
mergeInputsAfter(s, d) ==
  [state |->
     [nodes |-> IF NodesAtPush(s, d).shared
                THEN AddNodes(NodesAtPush(s, d).items, d)
                ELSE s.nodes,
      edges |-> IF EdgesAtPush(s, d).shared
                THEN AddEdges(MergedNodes(s, d), EdgesAtPush(s, d).items, d).edges
                ELSE s.edges,
      meta |-> s.meta],
   delta |-> d]

(***************************************************************************)
(* graph-merge: validateGraphState                                         *)
(***************************************************************************)
\* the errors of a loop that reports every id it has seen before: the rest
\* of the list is gone through in order, each id joining seen
DuplicateErrors(errors, seen, rest, what) ==
  LET repeated == SelectSeq([i \in DOMAIN rest |-> i],
                            LAMBDA i : rest[i].id \in
                                         seen \cup {rest[j].id : j \in 1 .. i - 1})
  IN errors \o [k \in DOMAIN repeated |->
                  [error |-> what, id |-> rest[repeated[k]].id]]

\* the two tests of the reference loop for each edge in order, the source's
\* at the odd places and the target's at the even ones
ReferenceTests(rest) ==
  [k \in 1 .. 2 * Len(rest) |->
     LET edge == rest[(k + 1) \div 2]
     IN IF k % 2 = 1
        THEN [error |-> "missing source", id |-> edge.id, end |-> edge.source,
              other |-> edge.source]
        ELSE [error |-> "missing target", id |-> edge.id, end |-> edge.target,
              other |-> edge.source]]

\* a slip in the reference loop: the target is looked up only when the source
\* was found
ReferenceErrors_ElseIf(errors, nodeIds, rest) ==
  LET failed == SelectSeq(ReferenceTests(rest),
                          LAMBDA c : /\ c.end \notin nodeIds
                                     /\ (c.error = "missing target"
                                           => c.other \in nodeIds))
  IN errors \o [k \in DOMAIN failed |->
                  [error |-> failed[k].error, id |-> failed[k].id]]

\* the errors of the loop over the edges' references
ReferenceErrors(errors, nodeIds, rest) ==
  LET failed == SelectSeq(ReferenceTests(rest), LAMBDA c : c.end \notin nodeIds)
  IN errors \o [k \in DOMAIN failed |->
                  [error |-> failed[k].error, id |-> failed[k].id]]

validateGraphState(s) ==
  LET nodeIds == {n.id : n \in ToSet(s.nodes)}
      e1 == DuplicateErrors(<< >>, {}, s.nodes, "duplicate node")
      e2 == DuplicateErrors(e1, {}, s.edges, "duplicate edge")
      errors == ReferenceErrors(e2, nodeIds, s.edges)
  IN [valid |-> Len(errors) = 0, errors |-> errors]

(***************************************************************************)
(* graph-merge: the property reads that raise a TypeError when the object  *)
(* read from is undefined                                                  *)
(***************************************************************************)
\* a slip in step 4: the fields of the update are read without the test
\* `if (!update) return node`
UpdateRead_Unguarded(map, node) == TRUE

\* whether step 4 reads update.label, update.kind and update.data for node,
\* where update is updateMap.get(node.id): only past `if (!update) return node`
UpdateRead(map, node) == node.id \in DOMAIN map

\* whether the guard of a step reads d[f].length: only past `d[f] &&`
LengthRead(d, f) == Has(d, f)

\* the reads of one call of mergeGraphDelta that hit an undefined object
mergeTypeErrors(s, d) ==
  {[read |-> "length", of |-> f] :
     f \in {g \in ToSet(FieldNames) : LengthRead(d, g) /\ ~Has(d, g)}}
  \cup
  {[read |-> "update", of |-> id] :
     id \in {n.id : n \in
               {m \in ToSet(AddNodes(RemoveNodes(s.nodes, d), d)) :
                  /\ NonEmpty(d, "updateNodes")
                  /\ UpdateRead(updateMap(d.updateNodes), m)
                  /\ m.id \notin DOMAIN updateMap(d.updateNodes)}}}

(***************************************************************************)
(* graph-merge: autoLayoutNodes                                            *)
(***************************************************************************)
SPACING_X == 250
SPACING_Y == 150
COLS == 4
\* the default values of the parameters startX and startY
DefaultStartX == 100
DefaultStartY == 100

\* a slip in the callback: the node it is given is repositioned in place
LayoutNode_InPlace(node, index, startX, startY) ==
  IF node.position.x # 0 \/ node.position.y # 0
  THEN [out |-> node, arg |-> node]
  ELSE LET moved == [node EXCEPT !.position =
                       [x |-> startX + (index % COLS) * SPACING_X,
                        y |-> startY + (index \div COLS) * SPACING_Y]]
       IN [out |-> moved, arg |-> moved]

\* the callback of nodes.map for the node at the 0-based index: out is what
\* it returns, arg is the node object it was given as it is afterwards
LayoutNode(node, index, startX, startY) ==
  IF node.position.x # 0 \/ node.position.y # 0
  THEN [out |-> node, arg |-> node]
  ELSE [out |-> [node EXCEPT !.position =
                   [x |-> startX + (index % COLS) * SPACING_X,
                    y |-> startY + (index \div COLS) * SPACING_Y]],
        arg |-> node]

\* a slip in the index: only the nodes that are laid out are counted
autoLayoutNodes_CountsUnplaced(nodes, startX, startY) ==
  [k \in DOMAIN nodes |->
     LayoutNode(nodes[k],
                Cardinality({j \in 1 .. k - 1 :
                               nodes[j].position = [x |-> 0, y |-> 0]}),
                startX, startY).out]

autoLayoutNodes(nodes, startX, startY) ==
  [k \in DOMAIN nodes |-> LayoutNode(nodes[k], k - 1, startX, startY).out]

\* the list the caller passed, after the call
autoLayoutInputAfter(nodes, startX, startY) ==
  [k \in DOMAIN nodes |-> LayoutNode(nodes[k], k - 1, startX, startY).arg]

\* node.position.x of a node without position
layoutTypeErrors(nodes) ==
  {[read |-> "position", of |-> k] :
     k \in {j \in DOMAIN nodes : ~Has(nodes[j], "position")}}

\* the value of a parameter with a default
ArgOr(args, name, default) == IF Has(args, name) THEN args[name] ELSE default

(***************************************************************************)
(* prompts: generateChangeSummary                                          *)
(*                                                                         *)
(* A text is the sequence of the pieces it is put together from: the       *)
(* literal parts of the template strings and the values put into them.     *)
(***************************************************************************)
\* parts.join(sep)
RECURSIVE Join(_, _)
Join(parts, sep) ==
  IF parts = << >> THEN << >>
  ELSE IF Len(parts) = 1 THEN parts[1]
  ELSE parts[1] \o sep \o Join(Tail(parts), sep)

\* `"${n.label}" (${n.kind})`
NodeText(n) == <<"\"", n.label, "\" (", n.kind, ")">>

\* `${e.source} -> ${e.target} (${e.kind})`, the arrow being U+2192
EdgeText(e) == <<e.source, " -> ", e.target, " (", e.kind, ")">>

\* u => u.id
UpdateText(u) == <<u.id>>

\* an id of removeNodeIds or removeEdgeIds
IdText(id) == <<id>>

\* `${verb}${count}${noun}${names}`
Sentence(verb, count, noun, names) ==
  <<verb, ToString(count), noun>> \o Join(names, <<", ">>)

\* a slip in the guards: a list is reported when it is present, even if empty
SummaryParts_PresentLists(d) ==
  (IF Has(d, "addNodes")
   THEN <<Sentence("Added ", Len(d.addNodes), " node(s): ",
                   [i \in DOMAIN d.addNodes |-> NodeText(d.addNodes[i])])>> ELSE << >>)
  \o (IF Has(d, "updateNodes")
      THEN <<Sentence("Updated ", Len(d.updateNodes), " node(s): ",
                      [i \in DOMAIN d.updateNodes |-> UpdateText(d.updateNodes[i])])>> ELSE << >>)
  \o (IF Has(d, "removeNodeIds")
      THEN <<Sentence("Removed ", Len(d.removeNodeIds), " node(s): ",
                      [i \in DOMAIN d.removeNodeIds |-> IdText(d.removeNodeIds[i])])>> ELSE << >>)
  \o (IF Has(d, "addEdges")
      THEN <<Sentence("Added ", Len(d.addEdges), " edge(s): ",
                      [i \in DOMAIN d.addEdges |-> EdgeText(d.addEdges[i])])>> ELSE << >>)
  \o (IF Has(d, "removeEdgeIds")
      THEN <<Sentence("Removed ", Len(d.removeEdgeIds), " edge(s): ",
                      [i \in DOMAIN d.removeEdgeIds |-> IdText(d.removeEdgeIds[i])])>> ELSE << >>)

\* the array parts after the five pushes
SummaryParts(d) ==
  (IF NonEmpty(d, "addNodes")
   THEN <<Sentence("Added ", Len(d.addNodes), " node(s): ",
                   [i \in DOMAIN d.addNodes |-> NodeText(d.addNodes[i])])>> ELSE << >>)
  \o (IF NonEmpty(d, "updateNodes")
      THEN <<Sentence("Updated ", Len(d.updateNodes), " node(s): ",
                      [i \in DOMAIN d.updateNodes |-> UpdateText(d.updateNodes[i])])>> ELSE << >>)
  \o (IF NonEmpty(d, "removeNodeIds")
      THEN <<Sentence("Removed ", Len(d.removeNodeIds), " node(s): ",
                      [i \in DOMAIN d.removeNodeIds |-> IdText(d.removeNodeIds[i])])>> ELSE << >>)
  \o (IF NonEmpty(d, "addEdges")
      THEN <<Sentence("Added ", Len(d.addEdges), " edge(s): ",
                      [i \in DOMAIN d.addEdges |-> EdgeText(d.addEdges[i])])>> ELSE << >>)
  \o (IF NonEmpty(d, "removeEdgeIds")
      THEN <<Sentence("Removed ", Len(d.removeEdgeIds), " edge(s): ",
                      [i \in DOMAIN d.removeEdgeIds |-> IdText(d.removeEdgeIds[i])])>> ELSE << >>)

NoChanges == <<"No changes were made to the graph.">>

generateChangeSummary(d) ==
  IF Len(SummaryParts(d)) = 0 THEN NoChanges
  ELSE Join(SummaryParts(d), <<". ">>) \o <<".">>

(***************************************************************************)
(* The chat pipeline: POST /api/chat and processChatClientSide             *)
(***************************************************************************)
\* a slip in the start row: the layout always starts at the top
LayoutStartY_Top(canonical) == 100

\* the y-coordinate the layout of the added nodes starts at
LayoutStartY(canonical) ==
  IF Len(canonical.nodes) > 0
  THEN (CHOOSE y \in {n.position.y : n \in ToSet(canonical.nodes)} :
          \A n \in ToSet(canonical.nodes) : n.position.y <= y) + 150
  ELSE 100

\* delta after `delta.addNodes = autoLayoutNodes(delta.addNodes, 100, startY)`
LaidOutDelta(canonical, d) ==
  IF NonEmpty(d, "addNodes")
  THEN [d EXCEPT !.addNodes =
          autoLayoutNodes(d.addNodes, 100, LayoutStartY(canonical))]
  ELSE d

\* console.warn('Graph validation warnings:', validation.errors)
ValidationWarning(validation) ==
  [warning |-> "Graph validation warnings", errors |-> validation.errors]

\* a slip after the validation: a state that is not valid is dropped and the
\* canonical state is kept, persisted and returned
chatMerge_RejectInvalid(canonical, d, t) ==
  LET laid == LaidOutDelta(canonical, d)
      newState == mergeGraphDelta(canonical, laid, t)
      validation == validateGraphState(newState)
  IN [delta |-> laid,
      newState |-> IF validation.valid THEN newState ELSE canonical,
      validation |-> validation,
      warnings |-> mergeWarnings(canonical, laid)
                   \o (IF validation.valid THEN << >>
                       ELSE <<ValidationWarning(validation)>>),
      assistantMessage |-> generateChangeSummary(laid)]

\* the steps of both pipelines from the parsed delta to the summary: layout,
\* merge, validation (a warning at most), summary
chatMerge(canonical, d, t) ==
  LET laid == LaidOutDelta(canonical, d)
      newState == mergeGraphDelta(canonical, laid, t)
      validation == validateGraphState(newState)
  IN [delta |-> laid,
      newState |-> newState,
      validation |-> validation,
      warnings |-> mergeWarnings(canonical, laid)
                   \o (IF validation.valid THEN << >>
                       ELSE <<ValidationWarning(validation)>>),
      assistantMessage |-> generateChangeSummary(laid)]

\* demo-mode.ts has its own parseAndValidateDelta: the fences are cut off,
\* the text is parsed, directly or from the first { to the last }, and the
\* value is checked against GraphDeltaSchema
parseAndValidateDeltaInBrowser(response) ==
  LET trimmed == trim(response)
      noStart == IF trimmed # << >> /\ Head(trimmed) = FenceJson THEN Tail(trimmed)
                 ELSE IF trimmed # << >> /\ Head(trimmed) = Fence THEN Tail(trimmed)
                 ELSE trimmed
      noEnd == IF noStart # << >> /\ noStart[Len(noStart)] = Fence
               THEN SubSeq(noStart, 1, Len(noStart) - 1)
               ELSE noStart
      cleaned == trim(noEnd)
      direct == JSONparse(cleaned)
      jsonMatch == JsonMatch(cleaned)
      parsed == IF "value" \in DOMAIN direct THEN direct
                ELSE IF jsonMatch.found THEN JSONparse(jsonMatch.text)
                ELSE [thrown |-> "Could not find valid JSON in response"]
  IN IF "thrown" \in DOMAIN parsed THEN [thrown |-> parsed.thrown]
     ELSE LET result == GraphDeltaSchema(parsed.value)
          IN IF result.success THEN [delta |-> result.data]
             ELSE [thrown |-> "Invalid GraphDelta"]

\* a slip in the browser pipeline: the added nodes keep the positions the
\* model gave them
mergeInBrowser_NoLayout(graphState, d, t) ==
  LET newState == mergeGraphDelta(graphState, d, t)
      validation == validateGraphState(newState)
  IN [delta |-> d,
      newState |-> newState,
      validation |-> validation,
      warnings |-> mergeWarnings(graphState, d)
                   \o (IF validation.valid THEN << >>
                       ELSE <<ValidationWarning(validation)>>),
      assistantMessage |-> generateChangeSummary(d)]

\* processChatClientSide from the parsed delta on: layout of the added nodes
\* below the lowest node of graphState, merge, validation (a warning at
\* most), summary
mergeInBrowser(graphState, d, t) ==
  LET startY == IF Len(graphState.nodes) > 0
                THEN (CHOOSE y \in {n.position.y : n \in ToSet(graphState.nodes)} :
                        \A n \in ToSet(graphState.nodes) : n.position.y <= y) + 150
                ELSE 100
      laid == IF NonEmpty(d, "addNodes")
              THEN [d EXCEPT !.addNodes = autoLayoutNodes(d.addNodes, 100, startY)]
              ELSE d
      newState == mergeGraphDelta(graphState, laid, t)
      validation == validateGraphState(newState)
  IN [delta |-> laid,
      newState |-> newState,
      validation |-> validation,
      warnings |-> mergeWarnings(graphState, laid)
                   \o (IF validation.valid THEN << >>
                       ELSE <<ValidationWarning(validation)>>),
      assistantMessage |-> generateChangeSummary(laid)]

\* processChatClientSide(request): what it returns, or what it throws
processChatClientSide(graphState, reply, t) ==
  IF reply.outcome = "fails"
  THEN [thrown |-> "Failed to get response from AI"]
  ELSE LET result == parseAndValidateDeltaInBrowser(reply.text)
       IN IF "thrown" \in DOMAIN result
          THEN [thrown |-> "Couldn't parse AI response"]
          ELSE LET out == mergeInBrowser(trimInputAfter(graphState), result.delta, t)
               IN [value |-> [assistantMessage |-> out.assistantMessage,
                              graphState |-> out.newState]]

\* a slip in the choice of the base: a graphState of the request that has
\* nodes is taken, the row only for a request without a graph
CanonicalState_BodyFirst(row, body) ==
  IF row # NoRow /\ row.parses /\ body.nodes = << >> THEN row.state ELSE body

\* the state the server merges into: the row's, if there is a row and its
\* text parses, otherwise the graphState of the request
CanonicalState(row, body) ==
  IF row # NoRow /\ row.parses THEN row.state ELSE body

(***************************************************************************)
(* A project's life: created empty, then changed by merges only            *)
(***************************************************************************)
Init ==
  /\ state = createEmptyGraphState(ProjectId, CreatedAt)
  /\ prior = state
  /\ delta = EmptyDelta
  /\ warned = << >>
  /\ inputs = [state |-> state, delta |-> delta]
  /\ now = CreatedAt
  /\ layoutArgs = NoLayoutArgs
  /\ returned = NoData
  /\ llmResponse = NoText
  /\ page = NoPage
  /\ reqs = NoRequests
  /\ writes = << >>
  /\ store = NoRow
  /\ chat = NoChat
  /\ pc = "chain"

\* the caller merges a delta into the state it holds and keeps the result
Merge ==
  /\ pc = "chain"
  /\ UNCHANGED <<llmResponse, page, reqs, writes>>
  /\ \E d \in Deltas, t \in Times :
       state' = mergeGraphDelta(state, d, t)
  /\ UNCHANGED <<prior, delta, warned, inputs, now, layoutArgs, returned,
                 store, chat, pc>>

Next == Merge

Spec == Init /\ [][Next]_vars

(***************************************************************************)
(* One call of one of the functions, on any arguments the schemas accept   *)
(***************************************************************************)
InitMerge ==
  /\ state \in AnyStates
  /\ prior = state
  /\ delta \in Deltas \cup ReplaceDeltas
  /\ warned = << >>
  /\ inputs = [state |-> state, delta |-> delta]
  /\ now = CreatedAt
  /\ layoutArgs = NoLayoutArgs
  /\ returned = NoData
  /\ llmResponse = NoText
  /\ page = NoPage
  /\ reqs = NoRequests
  /\ writes = << >>
  /\ store = NoRow
  /\ chat = NoChat
  /\ pc = "call"

InitValidate ==
  /\ state \in ValidateStates
  /\ prior = state
  /\ delta = EmptyDelta
  /\ warned = << >>
  /\ inputs = [state |-> state]
  /\ now = CreatedAt
  /\ layoutArgs = NoLayoutArgs
  /\ returned = NoData
  /\ llmResponse = NoText
  /\ page = NoPage
  /\ reqs = NoRequests
  /\ writes = << >>
  /\ store = NoRow
  /\ chat = NoChat
  /\ pc = "validate"

InitLayout ==
  /\ state = createEmptyGraphState(ProjectId, CreatedAt)
  /\ prior = state
  /\ delta = EmptyDelta
  /\ warned = << >>
  /\ layoutArgs \in LayoutArgs
  /\ inputs = [nodes |-> layoutArgs.nodes]
  /\ now = CreatedAt
  /\ returned = NoData
  /\ llmResponse = NoText
  /\ page = NoPage
  /\ reqs = NoRequests
  /\ writes = << >>
  /\ store = NoRow
  /\ chat = NoChat
  /\ pc = "layout"

InitSummary ==
  /\ state = createEmptyGraphState(ProjectId, CreatedAt)
  /\ prior = state
  /\ delta \in Deltas
  /\ warned = << >>
  /\ inputs = [delta |-> delta]
  /\ now = CreatedAt
  /\ layoutArgs = NoLayoutArgs
  /\ returned = NoData
  /\ llmResponse = NoText
  /\ page = NoPage
  /\ reqs = NoRequests
  /\ writes = << >>
  /\ store = NoRow
  /\ chat = NoChat
  /\ pc = "summarize"

InitParse ==
  /\ state = createEmptyGraphState(ProjectId, CreatedAt)
  /\ prior = state
  /\ delta = EmptyDelta
  /\ warned = << >>
  /\ \E prefix \in Prefixes, core \in Cores, suffix \in Suffixes :
       /\ inputs = [prefix |-> prefix, core |-> core, suffix |-> suffix]
       /\ llmResponse = prefix \o core.text \o suffix
  /\ now = CreatedAt
  /\ layoutArgs = NoLayoutArgs
  /\ returned = NoData
  /\ page = NoPage
  /\ reqs = NoRequests
  /\ writes = << >>
  /\ store = NoRow
  /\ chat = NoChat
  /\ pc = "parse"

InitPrompt ==
  /\ state \in PromptStates
  /\ prior = state
  /\ delta = EmptyDelta
  /\ warned = << >>
  /\ inputs = [state |-> state]
  /\ now = CreatedAt
  /\ layoutArgs = NoLayoutArgs
  /\ returned = NoData
  /\ llmResponse = NoText
  /\ page = NoPage
  /\ reqs = NoRequests
  /\ writes = << >>
  /\ store = NoRow
  /\ chat = NoChat
  /\ pc = "trim"

InitCall ==
  \/ InitMerge
  \/ InitValidate
  \/ InitLayout
  \/ InitSummary
  \/ InitParse
  \/ InitPrompt

\* mergeGraphDelta(state, delta): it returns, or a TypeError leaves it
Apply ==
  /\ pc = "call"
  /\ UNCHANGED <<llmResponse, page, reqs, writes>>
  /\ IF mergeTypeErrors(state, delta) # {}
     THEN /\ pc' = "threw"
          /\ UNCHANGED <<state, prior, warned, inputs, now>>
     ELSE /\ \E t \in Times :
               /\ state' = mergeGraphDelta(state, delta, t)
               /\ now' = t
          /\ prior' = state
          /\ warned' = mergeWarnings(state, delta)
          /\ inputs' = mergeInputsAfter(state, delta)
          /\ pc' = "done"
  /\ UNCHANGED <<delta, layoutArgs, returned, store, chat>>

\* validateGraphState(state): it only reads the state
Validate ==
  /\ pc = "validate"
  /\ UNCHANGED <<llmResponse, page, reqs, writes>>
  /\ returned' = validateGraphState(state)
  /\ inputs' = [state |-> state]
  /\ pc' = "validated"
  /\ UNCHANGED <<state, prior, delta, warned, now, layoutArgs, store, chat>>

\* autoLayoutNodes(nodes, startX, startY), or autoLayoutNodes(nodes)
Layout ==
  /\ pc = "layout"
  /\ UNCHANGED <<llmResponse, page, reqs, writes>>
  /\ LET nodes == layoutArgs.nodes
         startX == ArgOr(layoutArgs, "startX", DefaultStartX)
         startY == ArgOr(layoutArgs, "startY", DefaultStartY)
     IN IF layoutTypeErrors(nodes) # {}
        THEN /\ pc' = "threw"
             /\ UNCHANGED <<returned, inputs>>
        ELSE /\ returned' = autoLayoutNodes(nodes, startX, startY)
             /\ inputs' = [nodes |-> autoLayoutInputAfter(nodes, startX, startY)]
             /\ pc' = "laid"
  /\ UNCHANGED <<state, prior, delta, warned, now, layoutArgs, store, chat>>

\* generateChangeSummary(delta): it only reads the delta
Summarize ==
  /\ pc = "summarize"
  /\ UNCHANGED <<llmResponse, page, reqs, writes>>
  /\ returned' = generateChangeSummary(delta)
  /\ inputs' = [delta |-> delta]
  /\ pc' = "summarized"
  /\ UNCHANGED <<state, prior, delta, warned, now, layoutArgs, store, chat>>

\* parseAndValidateDelta(response): it returns the delta or it throws
Parse ==
  /\ pc = "parse"
  /\ returned' = parseAndValidateDelta(llmResponse)
  /\ pc' = "parsed"
  /\ UNCHANGED <<state, prior, delta, warned, inputs, now, layoutArgs, store,
                 chat, llmResponse, page, reqs, writes>>

\* trimGraphStateForPrompt(graphState), as buildLLMMessages calls it
Trim ==
  /\ pc = "trim"
  /\ returned' = trimGraphStateForPrompt(state).state
  /\ warned' = trimGraphStateForPrompt(state).warnings
  /\ inputs' = [state |-> trimInputAfter(state)]
  /\ pc' = "trimmed"
  /\ UNCHANGED <<state, prior, delta, now, layoutArgs, store, chat,
                 llmResponse, page, reqs, writes>>

\* mergeGraphDelta(result, delta): the same delta is merged into the state the
\* first call returned; returned keeps that first result
Reapply ==
  /\ pc = "done"
  /\ UNCHANGED <<llmResponse, page, reqs, writes>>
  /\ IF mergeTypeErrors(state, delta) # {}
     THEN /\ pc' = "threw"
          /\ UNCHANGED <<state, warned, inputs, now, returned>>
     ELSE /\ \E t \in Times :
               /\ state' = mergeGraphDelta(state, delta, t)
               /\ now' = t
          /\ returned' = [first |-> state]
          /\ warned' = warned \o mergeWarnings(state, delta)
          /\ inputs' = mergeInputsAfter(state, delta)
          /\ pc' = "reapplied"
  /\ UNCHANGED <<prior, delta, layoutArgs, store, chat>>

NextCall == Apply \/ Reapply \/ Validate \/ Layout \/ Summarize \/ Parse \/ Trim

SpecCall == InitCall /\ [][NextCall]_vars

(***************************************************************************)
(* One chat request, on the server or in the browser                       *)
(***************************************************************************)
InitChat ==
  /\ chat \in {[side |-> sd, message |-> m, reply |-> r, result |-> NoData,
                merged |-> FALSE, parsed |-> EmptyDelta] :
                 sd \in {"server", "client"}, m \in {"", "add a queue"},
                 r \in Replies}
  \* a request without message is refused before anything else is read
  /\ chat.message = "" => chat.side = "server" /\ chat.reply.outcome = "fails"
  /\ store \in {NoRow, CorruptRow} \cup {Row(s) : s \in ChatStates}
  /\ chat.side = "client" => store = NoRow
  /\ state \in ChatStates \cup {StaleState}
  /\ (store # NoRow /\ store.parses) <=> state = StaleState
  \* a row whose text does not parse is tried with the largest bodies only
  /\ store = CorruptRow => Len(state.nodes) = 3
  /\ prior = state
  /\ delta = EmptyDelta
  /\ warned = << >>
  /\ inputs = NoData
  /\ now = CreatedAt
  /\ layoutArgs = NoLayoutArgs
  /\ returned = NoData
  /\ llmResponse = NoText
  \* the chat panel sends no empty message: such a request has no page
  /\ page = IF chat.message = "" THEN NoPage
            ELSE [graphState |-> state,
                  messages |-> <<[role |-> "user", content |-> chat.message]>>]
  /\ reqs = NoRequests
  /\ writes = << >>
  /\ pc = "chat"

\* server: the body is read, the message is checked and the row is looked
\* up; browser: the request is taken apart.  Then the model is called.
ChatStart ==
  /\ pc = "chat"
  /\ UNCHANGED <<llmResponse, page, reqs, writes>>
  /\ IF chat.side = "server" /\ chat.message = ""
     THEN /\ returned' = [status |-> 400,
                          body |-> [error |-> "Message is required"]]
          /\ pc' = "responded"
          /\ UNCHANGED <<prior, warned, inputs>>
     ELSE /\ \E graphState \in {IF chat.side = "server"
                                THEN CanonicalState(store, state) ELSE state} :
               \* buildLLMMessages(message, graphState)
               /\ inputs' = [graphState |-> graphState,
                             prompt |-> trimGraphStateForPrompt(graphState).state]
               /\ warned' = trimGraphStateForPrompt(graphState).warnings
               /\ prior' = trimInputAfter(graphState)
          /\ pc' = "called"
          /\ UNCHANGED returned
  /\ UNCHANGED <<state, delta, now, layoutArgs, store, chat>>

\* mutant of ChatCallFails: the server answers as it does when the text of
\* the model is refused
ChatCallFails_AsParseFailure ==
  /\ pc = "called"
  /\ UNCHANGED <<llmResponse, page, reqs, writes>>
  /\ chat.reply.outcome = "fails"
  /\ IF chat.side = "server"
     THEN /\ returned' =
               [status |-> 200,
                body |-> [assistantMessage |-> "Sorry, I encountered an error",
                          graphState |-> prior]]
          /\ warned' = Append(warned, [error |-> "LLM call failed"])
     ELSE /\ returned' = [thrown |-> "Failed to get response from AI"]
          /\ UNCHANGED warned
  /\ pc' = "responded"
  /\ UNCHANGED <<state, prior, delta, inputs, now, layoutArgs, store, chat>>

\* the model call fails: the server answers 500 with the canonical state,
\* the browser pipeline throws
ChatCallFails ==
  /\ pc = "called"
  /\ UNCHANGED <<llmResponse, page, reqs, writes>>
  /\ chat.reply.outcome = "fails"
  /\ IF chat.side = "server"
     THEN /\ returned' =
               [status |-> 500,
                body |-> [error |-> "Failed to get response from AI",
                          assistantMessage |-> "Sorry, I encountered an error",
                          graphState |-> prior]]
          /\ warned' = Append(warned, [error |-> "LLM call failed"])
     ELSE /\ returned' = [thrown |-> "Failed to get response from AI"]
          /\ UNCHANGED warned
  /\ pc' = "responded"
  /\ UNCHANGED <<state, prior, delta, inputs, now, layoutArgs, store, chat>>

\* the reply once its text is in llmResponse
Received == [outcome |-> "text"]

\* the model call returns a text and parseAndValidateDelta is called on it:
\* it returns a delta or it throws
ChatReceive ==
  /\ pc = "called"
  /\ chat.reply.outcome = "text"
  /\ llmResponse' = chat.reply.text
  /\ LET result == IF chat.side = "server"
                   THEN parseAndValidateDelta(chat.reply.text)
                   ELSE parseAndValidateDeltaInBrowser(chat.reply.text)
     IN chat' = [chat EXCEPT
                   !.reply = Received,
                   !.result = [k \in DOMAIN result \cap {"delta", "thrown"} |->
                                 result[k]]]
  /\ pc' = "received"
  /\ UNCHANGED <<state, prior, delta, warned, inputs, now, layoutArgs,
                 returned, store, page, reqs, writes>>

\* the text of the model is rejected by parseAndValidateDelta: the server
\* answers 200 with a message and the canonical state, the browser pipeline
\* throws
ChatParseFails ==
  /\ pc = "received"
  /\ UNCHANGED <<llmResponse, page, reqs, writes>>
  /\ "thrown" \in DOMAIN chat.result
  /\ returned' =
       IF chat.side = "server"
       THEN [status |-> 200,
             body |-> [assistantMessage |-> "I couldn't parse the AI response",
                       graphState |-> prior]]
       ELSE [thrown |-> "Couldn't parse AI response"]
  /\ warned' = Append(warned, [error |-> "Failed to parse LLM response"])
  /\ pc' = "responded"
  /\ UNCHANGED <<state, prior, delta, inputs, now, layoutArgs, store, chat>>

\* the text parses: layout, merge and validation run; the browser pipeline
\* returns, the server goes on to the store
ChatMerge ==
  /\ pc = "received"
  /\ UNCHANGED <<llmResponse, page, reqs, writes>>
  /\ "delta" \in DOMAIN chat.result
  /\ \E t \in Times :
       LET out == IF chat.side = "server"
                  THEN chatMerge(prior, chat.result.delta, t)
                  ELSE mergeInBrowser(prior, chat.result.delta, t)
       IN /\ delta' = out.delta
          /\ now' = t
          /\ warned' = warned \o out.warnings
          /\ chat' = [chat EXCEPT !.merged = TRUE,
                                  !.parsed = chat.result.delta]
          /\ state' = out.newState
          /\ IF chat.side = "server"
             THEN pc' = "merged" /\ UNCHANGED returned
             ELSE /\ returned' =
                       [value |-> [assistantMessage |-> out.assistantMessage,
                                   graphState |-> out.newState]]
                  /\ pc' = "responded"
  /\ UNCHANGED <<prior, inputs, layoutArgs, store>>

\* the server looks the row up again and updates it, or creates it
ChatPersist ==
  /\ pc = "merged"
  /\ UNCHANGED <<llmResponse, page, reqs>>
  /\ store' = Row(state)
  /\ writes' = Append(writes, state)
  /\ pc' = "persisted"
  /\ UNCHANGED <<state, prior, delta, warned, inputs, now, layoutArgs,
                 returned, chat>>

\* a call of the store throws: the catch of the handler answers
ChatStoreFails ==
  /\ pc = "merged"
  /\ returned' = [status |-> 500, body |-> [error |-> "Internal server error"]]
  /\ warned' = Append(warned, [error |-> "Chat error"])
  /\ pc' = "failed"
  /\ UNCHANGED <<state, prior, delta, inputs, now, layoutArgs, store, chat,
                 llmResponse, page, reqs, writes>>

\* the server writes the summary and answers
ChatRespond ==
  /\ pc = "persisted"
  /\ UNCHANGED <<llmResponse, page, reqs, writes>>
  /\ returned' =
       [status |-> 200,
        body |-> [assistantMessage |-> generateChangeSummary(delta),
                  graphState |-> state]]
  /\ pc' = "responded"
  /\ UNCHANGED <<state, prior, delta, warned, inputs, now, layoutArgs,
                 store, chat>>

\* the text the chat panel shows for what came back, and the graph state it
\* hands to the page, if any
PanelContent(side, result) ==
  IF side = "client"
  THEN IF "thrown" \in DOMAIN result THEN <<"Error: ", result.thrown>>
       ELSE <<result.value.assistantMessage>>
  ELSE <<IF Has(result.body, "assistantMessage") THEN result.body.assistantMessage
         ELSE IF Has(result.body, "error") THEN result.body.error
         ELSE "Something went wrong.">>

PanelGraphState(side, result) ==
  IF side = "client"
  THEN IF "thrown" \in DOMAIN result THEN NoData
       ELSE [graphState |-> result.value.graphState]
  ELSE IF Has(result.body, "graphState")
       THEN [graphState |-> result.body.graphState]
       ELSE NoData

\* handleSubmit of the chat panel, after the answer: the assistant message
\* is shown; a graph state that came with it becomes the page's, and in the
\* browser pipeline it is saved to the browser's storage
ChatDeliver ==
  /\ pc \in {"responded", "failed"}
  /\ page # NoPage
  /\ LET new == PanelGraphState(chat.side, returned)
     IN /\ page' =
             [graphState |-> IF new = NoData THEN page.graphState
                             ELSE new.graphState,
              messages |-> Append(page.messages,
                                  [role |-> "assistant",
                                   content |-> PanelContent(chat.side, returned)])]
        /\ IF new # NoData /\ chat.side = "client"
           THEN /\ store' = Row(new.graphState)
                /\ writes' = Append(writes, new.graphState)
           ELSE UNCHANGED <<store, writes>>
  /\ pc' = "shown"
  /\ UNCHANGED <<state, prior, delta, warned, inputs, now, layoutArgs,
                 returned, chat, llmResponse, reqs>>

NextChat ==
  \/ ChatStart
  \/ ChatCallFails
  \/ ChatReceive
  \/ ChatParseFails
  \/ ChatMerge
  \/ ChatPersist
  \/ ChatStoreFails
  \/ ChatRespond
  \/ ChatDeliver

SpecChat == InitChat /\ [][NextChat]_vars

(***************************************************************************)
(* Vocabulary of the properties                                            *)
(***************************************************************************)
Ids(seq) == {seq[i].id : i \in DOMAIN seq}

DistinctIds(seq) ==
  \A i, j \in DOMAIN seq : seq[i].id = seq[j].id => i = j

\* every edge of s has both its ends among the nodes of s
NoDangling(s) ==
  \A i \in DOMAIN s.edges :
    s.edges[i].source \in Ids(s.nodes) /\ s.edges[i].target \in Ids(s.nodes)

\* an operation list of d, empty when d leaves it out
ListOf(d, f) == IF Has(d, f) THEN d[f] ELSE << >>

\* f is the only operation of d
OnlyField(d, f) ==
  /\ ListOf(d, f) # << >>
  /\ \A g \in ToSet(FieldNames) \ {f} : ListOf(d, g) = << >>

\* out holds exactly the elements of in at the indices in keep, in the order
\* they have in in
IsFiltered(out, in, keep) ==
  /\ Len(out) = Cardinality(keep)
  /\ \A k \in keep : out[Cardinality({i \in keep : i <= k})] = in[k]

Min(S) == CHOOSE m \in S : \A n \in S : m <= n

\* how many items of seq satisfy P
CountOf(seq, P(_)) == Cardinality({i \in DOMAIN seq : P(seq[i])})

\* the pieces of text between the occurrences of sep
RECURSIVE Split(_, _)
Split(text, sep) ==
  IF \A i \in DOMAIN text : text[i] # sep THEN <<text>>
  ELSE LET i == Min({j \in DOMAIN text : text[j] = sep})
       IN <<SubSeq(text, 1, i - 1)>>
          \o Split(SubSeq(text, i + 1, Len(text)), sep)

Max(S) == CHOOSE m \in S : \A n \in S : n <= m

\* the names of the operation lists of d that have an entry, in schema order
ListsWithEntries(d) == SelectSeq(FieldNames, LAMBDA f : ListOf(d, f) # << >>)

(***************************************************************************)
(* C1                                                                      *)
(***************************************************************************)
\* C1 as stated: after a call on any state the GraphState schema accepts,
\* every edge of the result has its source and its target among the result's
\* nodes.
C1_NoDanglingOnAnySchemaState ==
  pc = "done" => NoDangling(state)

\* C1 as amended: if every edge of the state given has its source and its
\* target among the state's nodes, then every edge of the result has its
\* source and its target among the result's nodes, whatever the delta.
C1_NoDanglingPreserved ==
  pc = "done" /\ NoDangling(prior) => NoDangling(state)

\* a call that removed a node some edge of an intact state was attached to
C1_Witness ==
  /\ pc = "done"
  /\ NoDangling(prior)
  /\ \E i \in DOMAIN prior.edges :
       prior.edges[i].target \in ToSet(ListOf(delta, "removeNodeIds"))
       /\ prior.edges[i].source \notin ToSet(ListOf(delta, "removeNodeIds"))
  /\ state.nodes # << >>

(***************************************************************************)
(* C2                                                                      *)
(***************************************************************************)
\* C2: every state reached from createEmptyGraphState by merges has pairwise
\* distinct node ids, pairwise distinct edge ids and no edge with a missing
\* end, and validateGraphState finds it valid.
C2_ReachableStatesValid ==
  pc = "chain" =>
    /\ DistinctIds(state.nodes)
    /\ DistinctIds(state.edges)
    /\ NoDangling(state)
    /\ validateGraphState(state).valid
    /\ validateGraphState(state).errors = << >>

\* a project that has grown to three nodes and two edges
C2_Witness ==
  /\ pc = "chain"
  /\ Len(state.nodes) = 3
  /\ Len(state.edges) = 2

(***************************************************************************)
(* C3                                                                      *)
(***************************************************************************)
\* C3: a call with a delta that lists nothing ({} or all five lists present
\* and empty) returns the nodes and the edges it was given, element by
\* element, and the same projectId; only updatedAt may differ.
C3_EmptyDeltaKeepsGraph ==
  pc = "done" /\ (\A f \in ToSet(FieldNames) : ListOf(delta, f) = << >>) =>
    /\ state.nodes = prior.nodes
    /\ state.edges = prior.edges
    /\ DOMAIN state = DOMAIN prior
    /\ DOMAIN state.meta = DOMAIN prior.meta
    /\ state.meta.projectId = prior.meta.projectId

\* a call with the five lists present and empty on a state with nodes and
\* edges, whose updatedAt changed
C3_Witness ==
  /\ pc = "done"
  /\ DOMAIN delta = ToSet(FieldNames)
  /\ \A f \in ToSet(FieldNames) : delta[f] = << >>
  /\ Len(prior.nodes) >= 2
  /\ Len(prior.edges) >= 2
  /\ state.meta.updatedAt # prior.meta.updatedAt

(***************************************************************************)
(* C4                                                                      *)
(***************************************************************************)
\* C4: when removeNodeIds is the only operation, the result has no node with
\* a listed id and no edge with a listed source or target; all other nodes
\* and edges are kept as they were, in their order; removing the only node
\* of a graph leaves no node and no edge.
C4_RemoveNodes ==
  pc = "done" /\ OnlyField(delta, "removeNodeIds") =>
    LET rm == ToSet(delta.removeNodeIds)
        keptNodes == {i \in DOMAIN prior.nodes : prior.nodes[i].id \notin rm}
        keptEdges == {i \in DOMAIN prior.edges :
                        /\ prior.edges[i].source \notin rm
                        /\ prior.edges[i].target \notin rm}
    IN /\ \A i \in DOMAIN state.nodes : state.nodes[i].id \notin rm
       /\ \A i \in DOMAIN state.edges :
            state.edges[i].source \notin rm /\ state.edges[i].target \notin rm
       /\ IsFiltered(state.nodes, prior.nodes, keptNodes)
       /\ IsFiltered(state.edges, prior.edges, keptEdges)
       /\ (Len(prior.nodes) = 1 /\ prior.nodes[1].id \in rm /\ NoDangling(prior)
             => state.nodes = << >> /\ state.edges = << >>)

\* a call that removed one node of three and, with it, an edge that
\* removeEdgeIds did not list, and kept another edge
C4_Witness ==
  /\ pc = "done"
  /\ OnlyField(delta, "removeNodeIds")
  /\ Len(prior.nodes) = 3
  /\ Len(state.nodes) = 2
  /\ Len(prior.edges) = 2
  /\ Len(state.edges) = 1

(***************************************************************************)
(* C5                                                                      *)
(***************************************************************************)
\* C5: when addNodes is the only operation, the nodes given stay where they
\* are, unchanged; an entry whose id a node of the state has adds nothing
\* (that id is held by the node that had it, by one node when the state's
\* ids are distinct); an entry with a new id is added after them, once.
C5_AddNodes ==
  pc = "done" /\ OnlyField(delta, "addNodes") =>
    LET n == Len(prior.nodes)
        added == delta.addNodes
        At(id) == {j \in DOMAIN state.nodes : state.nodes[j].id = id}
    IN /\ Len(state.nodes) >= n
       /\ SubSeq(state.nodes, 1, n) = prior.nodes
       /\ state.edges = prior.edges
       /\ \A i \in DOMAIN added :
            IF added[i].id \in Ids(prior.nodes)
            THEN /\ At(added[i].id) \subseteq 1 .. n
                 /\ DistinctIds(prior.nodes) => Cardinality(At(added[i].id)) = 1
            ELSE /\ Cardinality(At(added[i].id)) = 1
                 /\ \A j \in At(added[i].id) :
                      /\ j > n
                      /\ state.nodes[j] =
                           added[Min({k \in DOMAIN added : added[k].id = added[i].id})]

\* a call whose addNodes names a node the state has, with other fields, and
\* a node it does not have
C5_Witness ==
  /\ pc = "done"
  /\ OnlyField(delta, "addNodes")
  /\ DistinctIds(prior.nodes)
  /\ \E i, k \in DOMAIN delta.addNodes :
       /\ delta.addNodes[i].id \in Ids(prior.nodes)
       /\ delta.addNodes[i] \notin ToSet(prior.nodes)
       /\ delta.addNodes[k].id \notin Ids(prior.nodes)
       /\ delta.addNodes[k] \in ToSet(state.nodes)

(***************************************************************************)
(* C6                                                                      *)
(***************************************************************************)
\* C6: when updateNodes is the only operation and each of its entries names
\* an id no node of the state has, the call returns the nodes and the edges
\* it was given: nothing is changed and no node is created.
C6_UpdateOfAbsentIds ==
  pc = "done" /\ OnlyField(delta, "updateNodes")
    /\ (\A i \in DOMAIN delta.updateNodes :
          delta.updateNodes[i].id \notin Ids(prior.nodes)) =>
    /\ state.nodes = prior.nodes
    /\ state.edges = prior.edges
    /\ Ids(state.nodes) = Ids(prior.nodes)

\* a call with two updates for ids the state does not have, on a state that
\* has other nodes
C6_Witness ==
  /\ pc = "done"
  /\ OnlyField(delta, "updateNodes")
  /\ Len(delta.updateNodes) >= 2
  /\ \A i \in DOMAIN delta.updateNodes :
       delta.updateNodes[i].id \notin Ids(prior.nodes)
  /\ prior.nodes # << >>
  /\ state.nodes = prior.nodes

(***************************************************************************)
(* C7                                                                      *)
(***************************************************************************)
\* what C7 says of a node and an entry that names it
UpdatedAsStated(after, before, entry) ==
  /\ after.label = (IF Has(entry, "label") THEN entry.label ELSE before.label)
  /\ after.kind = (IF Has(entry, "kind") THEN entry.kind ELSE before.kind)
  /\ DOMAIN after.data = DOMAIN before.data \cup DOMAIN ListOf(entry, "data")
  /\ \A k \in DOMAIN after.data :
       after.data[k] = (IF k \in DOMAIN ListOf(entry, "data")
                        THEN entry.data[k] ELSE before.data[k])
  /\ after.id = before.id
  /\ after.position = before.position

\* C7: for every updateNodes entry that names a node of the state, the node
\* has in the result the label, the kind and the data keys the entry
\* supplies and its former values for the others, and its id and position.
\* (Stated for deltas whose only operation is updateNodes, where the node
\* before the update is the node of the state given.)
C7_EveryEntryApplied ==
  pc = "done" /\ OnlyField(delta, "updateNodes") =>
    /\ Len(state.nodes) = Len(prior.nodes)
    /\ \A u \in DOMAIN delta.updateNodes : \A i \in DOMAIN prior.nodes :
         prior.nodes[i].id = delta.updateNodes[u].id =>
           UpdatedAsStated(state.nodes[i], prior.nodes[i], delta.updateNodes[u])

\* what the code does: the same, for the last entry that names the node;
\* a node no entry names is returned as it was
C7_LastEntryApplied ==
  pc = "done" /\ OnlyField(delta, "updateNodes") =>
    /\ Len(state.nodes) = Len(prior.nodes)
    /\ state.edges = prior.edges
    /\ \A i \in DOMAIN prior.nodes :
         LET naming == {u \in DOMAIN delta.updateNodes :
                          delta.updateNodes[u].id = prior.nodes[i].id}
         IN IF naming = {} THEN state.nodes[i] = prior.nodes[i]
            ELSE UpdatedAsStated(state.nodes[i], prior.nodes[i],
                                 delta.updateNodes[-Min({-u : u \in naming})])

(***************************************************************************)
(* C8                                                                      *)
(***************************************************************************)
\* C8: an addEdges entry whose source or target is not a node of the result
\* (the nodes after removal, addition and update) is not added; the call
\* warns once for each such entry, in order; and the result is the result of
\* the same delta without those entries.
C8_BadEdgesDropped ==
  pc = "done" /\ Has(delta, "addEdges") =>
    LET nodeIds == Ids(state.nodes)
        Bad(x) == x.source \notin nodeIds \/ x.target \notin nodeIds
        bad == {i \in DOMAIN delta.addEdges : Bad(delta.addEdges[i])}
        others == [delta EXCEPT !.addEdges = SelectSeq(@, LAMBDA x : ~Bad(x))]
        told == [i \in DOMAIN delta.addEdges |->
                   [skipped |-> delta.addEdges[i].id,
                    source |-> delta.addEdges[i].source,
                    target |-> delta.addEdges[i].target]]
    IN /\ state = mergeGraphDelta(prior, others, state.meta.updatedAt)
       /\ IsFiltered(warned, told, bad)
       /\ Len(state.edges) <= Len(prior.edges) + Len(delta.addEdges) - Cardinality(bad)
       /\ NoDangling(prior) =>
            \A i \in bad : delta.addEdges[i] \notin ToSet(state.edges)

\* a call whose addEdges holds an entry with a missing end, which is dropped
\* with a warning, and another entry, which is added
C8_Witness ==
  /\ pc = "done"
  /\ Has(delta, "addEdges")
  /\ NoDangling(prior)
  /\ \E i, k \in DOMAIN delta.addEdges :
       /\ delta.addEdges[i].target \notin Ids(state.nodes)
       /\ delta.addEdges[i] \notin ToSet(state.edges)
       /\ Len(warned) = 1
       /\ warned[1].skipped = delta.addEdges[i].id
       /\ delta.addEdges[k] \in ToSet(state.edges)
       /\ delta.addEdges[k] \notin ToSet(prior.edges)

(***************************************************************************)
(* C9                                                                      *)
(***************************************************************************)
\* C9: an addEdges entry whose id no edge of the state and no earlier entry
\* has, and whose ends are each a node the delta adds or a node of the state
\* the delta does not remove, is in the result.
C9_EdgeToAddedNode ==
  pc = "done" /\ Has(delta, "addEdges") =>
    LET addedIds == Ids(ListOf(delta, "addNodes"))
        stayIds == Ids(prior.nodes) \ ToSet(ListOf(delta, "removeNodeIds"))
        ends == addedIds \cup stayIds
    IN \A i \in DOMAIN delta.addEdges :
         LET x == delta.addEdges[i]
         IN /\ x.id \notin Ids(prior.edges)
            /\ \A j \in 1 .. (i - 1) : delta.addEdges[j].id # x.id
            /\ x.source \in ends
            /\ x.target \in ends
            => x \in ToSet(state.edges)

\* a call that added an edge one end of which the same delta added and the
\* other end of which the state had
C9_Witness ==
  /\ pc = "done"
  /\ Has(delta, "addEdges")
  /\ \E i \in DOMAIN delta.addEdges :
       /\ delta.addEdges[i].source \notin Ids(prior.nodes)
       /\ delta.addEdges[i].source \in Ids(ListOf(delta, "addNodes"))
       /\ delta.addEdges[i].target \in Ids(prior.nodes)
       /\ delta.addEdges[i].id \notin Ids(prior.edges)
       /\ delta.addEdges[i] \in ToSet(state.edges)

(***************************************************************************)
(* C10                                                                     *)
(***************************************************************************)
\* C10: for an id that addEdges names: if edges of the state with that id
\* are left by the removal steps, the result's edges with that id are those
\* edges, as they were, and no entry is added; otherwise the result has the
\* first entry with that id whose ends exist, and no other edge with that id.
\* When the state's edge ids are distinct the result has at most one edge
\* with that id.
C10_EdgeIdTakenOnce ==
  pc = "done" /\ Has(delta, "addEdges") =>
    LET rmNodes == ToSet(ListOf(delta, "removeNodeIds"))
        rmEdges == ToSet(ListOf(delta, "removeEdgeIds"))
        left == {i \in DOMAIN prior.edges :
                   /\ prior.edges[i].id \notin rmEdges
                   /\ prior.edges[i].source \notin rmNodes
                   /\ prior.edges[i].target \notin rmNodes}
    IN \A id \in Ids(delta.addEdges) :
         LET holders == {i \in left : prior.edges[i].id = id}
             at == {j \in DOMAIN state.edges : state.edges[j].id = id}
             ok == {i \in DOMAIN delta.addEdges :
                      /\ delta.addEdges[i].id = id
                      /\ delta.addEdges[i].source \in Ids(state.nodes)
                      /\ delta.addEdges[i].target \in Ids(state.nodes)}
         IN /\ IF holders # {}
               THEN /\ Cardinality(at) = Cardinality(holders)
                    /\ \A j \in at : \E i \in holders :
                         state.edges[j] = prior.edges[i]
               ELSE IF ok = {} THEN at = {}
               ELSE /\ Cardinality(at) = 1
                    /\ \A j \in at : state.edges[j] = delta.addEdges[Min(ok)]
            /\ DistinctIds(prior.edges) => Cardinality(at) <= 1

\* a call whose addEdges names, with other ends, the id of an edge the state
\* keeps: that edge is in the result and the entry is not
C10_Witness ==
  /\ pc = "done"
  /\ Has(delta, "addEdges")
  /\ DistinctIds(prior.edges)
  /\ \E i \in DOMAIN delta.addEdges : \E k \in DOMAIN prior.edges :
       /\ delta.addEdges[i].id = prior.edges[k].id
       /\ delta.addEdges[i] # prior.edges[k]
       /\ delta.addEdges[i].source \in Ids(state.nodes)
       /\ delta.addEdges[i].target \in Ids(state.nodes)
       /\ prior.edges[k] \in ToSet(state.edges)
       /\ delta.addEdges[i] \notin ToSet(state.edges)

C12_MetaOfResult ==
  pc = "done" =>
    /\ state.meta.projectId = prior.meta.projectId
    /\ state.meta.updatedAt = now
    /\ DOMAIN state.meta = DOMAIN prior.meta

\* a call on a state of the second project, at a time later than the state's
\* updatedAt, with a delta that changed the graph
C12_Witness ==
  /\ pc = "done"
  /\ prior.meta.projectId # ProjectId
  /\ prior.meta.updatedAt # now
  /\ state.nodes # prior.nodes
  /\ state.edges # prior.edges

C14_Validation ==
  pc = "validated" =>
    LET ns == state.nodes
        es == state.edges
        errs == returned.errors
        Errors(what, id) ==
          CountOf(errs, LAMBDA e : e = [error |-> what, id |-> id])
        Repeats(seq, id) ==
          IF id \in Ids(seq)
          THEN CountOf(seq, LAMBDA x : x.id = id) - 1 ELSE 0
    IN /\ returned.valid <=>
            (DistinctIds(ns) /\ DistinctIds(es) /\ NoDangling(state))
       /\ \A id \in NodeIds :
            Errors("duplicate node", id) = Repeats(ns, id)
       /\ \A id \in EdgeIds :
            /\ Errors("duplicate edge", id) = Repeats(es, id)
            /\ Errors("missing source", id) =
                 CountOf(es, LAMBDA e : e.id = id /\ e.source \notin Ids(ns))
            /\ Errors("missing target", id) =
                 CountOf(es, LAMBDA e : e.id = id /\ e.target \notin Ids(ns))
       /\ Len(errs) =
            (Len(ns) - Cardinality(Ids(ns))) + (Len(es) - Cardinality(Ids(es)))
            + CountOf(es, LAMBDA e : e.source \notin Ids(ns))
            + CountOf(es, LAMBDA e : e.target \notin Ids(ns))
       /\ inputs.state = prior
       /\ state = prior

\* a state with a node id that occurs three times and an edge that has
\* neither end among the nodes
C14_Witness ==
  /\ pc = "validated"
  /\ \E id \in NodeIds : CountOf(state.nodes, LAMBDA n : n.id = id) = 3
  /\ \E i \in DOMAIN state.edges :
       /\ state.edges[i].source \notin Ids(state.nodes)
       /\ state.edges[i].target \notin Ids(state.nodes)
  /\ ~returned.valid
  /\ Len(returned.errors) >= 4

(***************************************************************************)
(* C16: the grid of autoLayoutNodes                                        *)
(***************************************************************************)
\* C16: the node at the 0-based index i of the list passed, if it is at (0,0),
\* is returned at (startX + (i mod 4) * 250, startY + floor(i / 4) * 150),
\* where i counts every node of the list
C16_GridPosition ==
  pc = "laid" =>
    \A k \in DOMAIN layoutArgs.nodes :
      layoutArgs.nodes[k].position = [x |-> 0, y |-> 0] =>
        returned[k].position =
          [x |-> ArgOr(layoutArgs, "startX", 100) + ((k - 1) % 4) * 250,
           y |-> ArgOr(layoutArgs, "startY", 100) + ((k - 1) \div 4) * 150]

\* a list of five nodes given with startX and startY: the first has a
\* position, the second and the fifth have none, and the fifth is put in
\* the second row
C16_Witness ==
  /\ pc = "laid"
  /\ Has(layoutArgs, "startX") /\ Has(layoutArgs, "startY")
  /\ Len(layoutArgs.nodes) = 5
  /\ layoutArgs.nodes[1].position.x # 0
  /\ layoutArgs.nodes[2].position = [x |-> 0, y |-> 0]
  /\ layoutArgs.nodes[5].position = [x |-> 0, y |-> 0]
  /\ returned[2].position = [x |-> layoutArgs.startX + 250, y |-> layoutArgs.startY]
  /\ returned[5].position = [x |-> layoutArgs.startX, y |-> layoutArgs.startY + 150]

(***************************************************************************)
(* C17: what autoLayoutNodes leaves alone                                  *)
(***************************************************************************)
\* C17: the list returned has the length of the list passed; at every index
\* a node with x or y non-zero is returned as it is, and a node at (0,0) is
\* returned with the same fields and the same id, kind, label and data; the
\* list passed and its nodes are after the call what they were
C17_LayoutFrame ==
  pc = "laid" =>
    /\ Len(returned) = Len(layoutArgs.nodes)
    /\ \A k \in DOMAIN layoutArgs.nodes :
         LET node == layoutArgs.nodes[k]
         IN IF node.position.x # 0 \/ node.position.y # 0
            THEN returned[k] = node
            ELSE /\ DOMAIN returned[k] = DOMAIN node
                 /\ \A f \in DOMAIN node \ {"position"} : returned[k][f] = node[f]
    /\ inputs.nodes = layoutArgs.nodes

\* a list with a node at (0,0) that was moved, a node with only x zero and
\* a node with only y zero
C17_Witness ==
  /\ pc = "laid"
  /\ \E k \in DOMAIN layoutArgs.nodes :
       /\ layoutArgs.nodes[k].position = [x |-> 0, y |-> 0]
       /\ returned[k].position # layoutArgs.nodes[k].position
  /\ \E k \in DOMAIN layoutArgs.nodes :
       /\ layoutArgs.nodes[k].position.x = 0
       /\ layoutArgs.nodes[k].position.y # 0
  /\ \E k \in DOMAIN layoutArgs.nodes :
       /\ layoutArgs.nodes[k].position.x # 0
       /\ layoutArgs.nodes[k].position.y = 0

(***************************************************************************)
(* C19: generateChangeSummary                                              *)
(***************************************************************************)
\* the words a sentence opens and continues with, by operation list
Heading(f) ==
  CASE f = "addNodes" -> <<"Added ", " node(s): ">>
    [] f = "updateNodes" -> <<"Updated ", " node(s): ">>
    [] f = "removeNodeIds" -> <<"Removed ", " node(s): ">>
    [] f = "addEdges" -> <<"Added ", " edge(s): ">>
    [] f = "removeEdgeIds" -> <<"Removed ", " edge(s): ">>

\* whether name names the entry x of the operation list f
Names(f, x, name) ==
  CASE f = "addNodes" -> name = <<"\"", x.label, "\" (", x.kind, ")">>
    [] f = "updateNodes" -> name = <<x.id>>
    [] f = "addEdges" ->
         /\ Len(name) >= 3 /\ name[1] = x.source /\ name[3] = x.target
         /\ \E i \in DOMAIN name : name[i] = x.kind
    [] OTHER -> name = <<x>>

\* C19: the summary is the fixed sentence exactly when no operation list has
\* an entry; otherwise it ends with a full stop and is, split at '. ', one
\* sentence per list with an entry, in the order added nodes, updated nodes,
\* removed nodes, added edges, removed edges, each made of its opening word,
\* the length of the list, the kind of item and, split at ', ', one name per
\* entry in list order; the delta is what it was
C19_Summary ==
  pc = "summarized" =>
    LET fs == ListsWithEntries(delta)
    IN /\ (returned = <<"No changes were made to the graph.">>) <=> (fs = << >>)
       /\ fs # << >> =>
            /\ returned[Len(returned)] = "."
            /\ LET sentences == Split(SubSeq(returned, 1, Len(returned) - 1), ". ")
               IN /\ Len(sentences) = Len(fs)
                  /\ \A i \in DOMAIN fs :
                       LET sn == sentences[i]
                           list == delta[fs[i]]
                           names == Split(SubSeq(sn, 4, Len(sn)), ", ")
                       IN /\ Len(sn) >= 4
                          /\ sn[1] = Heading(fs[i])[1]
                          /\ sn[2] = ToString(Len(list))
                          /\ sn[3] = Heading(fs[i])[2]
                          /\ Len(names) = Len(list)
                          /\ \A j \in DOMAIN list :
                               Names(fs[i], list[j], names[j])
       /\ DOMAIN inputs.delta = DOMAIN delta
       /\ \A f \in DOMAIN delta : inputs.delta[f] = delta[f]

\* a delta with all five lists written out, of which added nodes and removed
\* edges have an entry and the other three are empty: two sentences
C19_Witness ==
  /\ pc = "summarized"
  /\ DOMAIN delta = ToSet(FieldNames)
  /\ ListsWithEntries(delta) = <<"addNodes", "removeEdgeIds">>
  /\ Len(Split(returned, ". ")) = 2

(***************************************************************************)
(* Vocabulary of the chat pipeline's properties                            *)
(***************************************************************************)
\* a chat request has been answered after a merge
AnsweredAfterMerge == pc = "responded" /\ chat.merged

\* the summary and the graph state handed back to the caller
Answer == IF chat.side = "server" THEN returned.body ELSE returned.value

\* how many nodes and edges of the canonical state the merge kept
KeptNodeCount ==
  CountOf(prior.nodes,
          LAMBDA n : n.id \notin ToSet(ListOf(delta, "removeNodeIds")))

KeptEdgeCount ==
  CountOf(prior.edges,
          LAMBDA e : /\ e.id \notin ToSet(ListOf(delta, "removeEdgeIds"))
                     /\ e.source \notin ToSet(ListOf(delta, "removeNodeIds"))
                     /\ e.target \notin ToSet(ListOf(delta, "removeNodeIds")))

\* the indices, in the new state, of the nodes the delta added: they follow
\* the nodes that were kept
AddedAt == {j \in DOMAIN state.nodes : j > KeptNodeCount}

\* the entry of addNodes the node at index j of the new state was added from:
\* the first one with its id
EntryOf(j) ==
  Min({k \in DOMAIN delta.addNodes : delta.addNodes[k].id = state.nodes[j].id})

\* the start row as the claim gives it
StartRow ==
  IF prior.nodes = << >> THEN 100
  ELSE Max({prior.nodes[i].position.y : i \in DOMAIN prior.nodes}) + 150

\* every entry of addNodes that the model sent at (0,0) is on the grid that
\* starts at the start row, and every other entry is where the model put it
LaidOutFromStartRow ==
  \A k \in DOMAIN ListOf(chat.parsed, "addNodes") :
    IF chat.parsed.addNodes[k].position = [x |-> 0, y |-> 0]
    THEN delta.addNodes[k].position.y = StartRow + ((k - 1) \div 4) * 150
    ELSE delta.addNodes[k] = chat.parsed.addNodes[k]

(***************************************************************************)
(* C15: a merged state that is not valid is still persisted and returned   *)
(***************************************************************************)
\* C15: when a chat request is answered after a merge, the answer carries the
\* merge of the laid-out delta into the canonical state and the summary of
\* that delta, on the server with status 200 and with the row holding that
\* same state, whether or not validateGraphState finds the state valid; the
\* validation adds one warning to the console when the state is not valid
\* and nothing when it is
C15_InvalidOnlyLogged ==
  AnsweredAfterMerge =>
    LET merged == mergeGraphDelta(prior, delta, now)
        validation == validateGraphState(merged)
        answer == [assistantMessage |-> generateChangeSummary(delta),
                   graphState |-> merged]
    IN /\ IF chat.side = "server"
          THEN /\ returned = [status |-> 200, body |-> answer]
               /\ store = [parses |-> TRUE, state |-> merged]
          ELSE returned = [value |-> answer]
       /\ CountOf(warned, LAMBDA w : Has(w, "warning")) =
            (IF validation.valid THEN 0 ELSE 1)
       /\ ~validation.valid =>
            \E i \in DOMAIN warned :
              /\ Has(warned[i], "warning")
              /\ warned[i].errors = validation.errors

\* a request on the server whose merged state has an edge without its source
\* node: it is in the row and in the answer, with a summary that reports a
\* change
C15_Witness ==
  /\ AnsweredAfterMerge
  /\ chat.side = "server"
  /\ ~NoDangling(state)
  /\ ~validateGraphState(state).valid
  /\ store.state = state
  /\ returned.body.graphState = state
  /\ returned.body.assistantMessage # <<"No changes were made to the graph.">>
  /\ state.nodes # prior.nodes

(***************************************************************************)
(* C18: where the chat pipeline puts the nodes a delta adds                *)
(***************************************************************************)
\* C18 as stated: the layout starts at max(y of the canonical state's nodes)
\* + 150, or at 100 when it has no node, and every node the delta added is,
\* in the new state, at a y strictly greater than the y of every node of the
\* canonical state
C18_AddedNodesBelow ==
  chat.merged =>
    /\ LaidOutFromStartRow
    /\ \A j \in AddedAt : \A i \in DOMAIN prior.nodes :
         state.nodes[j].position.y > prior.nodes[i].position.y

\* C18: the layout starts at max(y of the canonical state's nodes) + 150, or
\* at 100 when it has no node; every node the delta added from an entry at
\* (0,0) is, in the new state, at a y strictly greater than the y of every
\* node of the canonical state, and a node added from an entry with a
\* position is at that position
C18_UnplacedNodesBelow ==
  chat.merged =>
    /\ LaidOutFromStartRow
    /\ \A j \in AddedAt :
         IF chat.parsed.addNodes[EntryOf(j)].position = [x |-> 0, y |-> 0]
         THEN \A i \in DOMAIN prior.nodes :
                state.nodes[j].position.y > prior.nodes[i].position.y
         ELSE state.nodes[j].position = chat.parsed.addNodes[EntryOf(j)].position

\* a graph with a node at y = 170 to which the delta added a node sent at
\* (0,0), now below it, and a node sent with a position above it
C18_Witness ==
  /\ chat.merged
  /\ \E i \in DOMAIN prior.nodes : prior.nodes[i].position.y = 170
  /\ \E j \in AddedAt :
       /\ chat.parsed.addNodes[EntryOf(j)].position = [x |-> 0, y |-> 0]
       /\ state.nodes[j].position.y = 320
  /\ \E j \in AddedAt :
       /\ chat.parsed.addNodes[EntryOf(j)].position.y # 0
       /\ state.nodes[j].position.y < 170

(***************************************************************************)
(* C20: the numbers the summary reports                                    *)
(***************************************************************************)
\* the number the summary of the answer reports for the operation list f:
\* the count of the sentence with the heading of f, "0" without it
Reported(f) ==
  LET text == Answer.assistantMessage
      sentences == Split(SubSeq(text, 1, Len(text) - 1), ". ")
      mine == {i \in DOMAIN sentences :
                 /\ Len(sentences[i]) >= 3
                 /\ sentences[i][1] = Heading(f)[1]
                 /\ sentences[i][3] = Heading(f)[2]}
  IN IF mine = {} THEN "0" ELSE sentences[Min(mine)][2]

\* how many nodes and edges the merge added, updated and removed
Changed(f) ==
  CASE f = "addNodes" -> Len(state.nodes) - KeptNodeCount
    [] f = "updateNodes" ->
         CountOf(state.nodes,
                 LAMBDA n : n.id \in Ids(ListOf(delta, "updateNodes")))
    [] f = "removeNodeIds" -> Len(prior.nodes) - KeptNodeCount
    [] f = "addEdges" -> Len(state.edges) - KeptEdgeCount
    [] f = "removeEdgeIds" -> Len(prior.edges) - KeptEdgeCount

\* C20 as stated: in every answer after a merge, the numbers of nodes added,
\* updated and removed and of edges added and removed that the summary
\* reports are the numbers the merge added, updated and removed
C20_SummaryCountsWhatChanged ==
  AnsweredAfterMerge =>
    \A f \in ToSet(FieldNames) : Reported(f) = ToString(Changed(f))

(***************************************************************************)
(* C24                                                                     *)
(***************************************************************************)
\* the tokens of a text that are not white space
Inked(text) == SelectSeq(text, LAMBDA tok : tok # Ws)

\* how many fences a text starts with, and how many it ends with, white
\* space aside
RECURSIVE LeadingFences(_)
LeadingFences(text) ==
  IF Inked(text) # << >> /\ Head(Inked(text)) \in {FenceJson, Fence}
  THEN 1 + LeadingFences(Tail(Inked(text)))
  ELSE 0

RECURSIVE TrailingFences(_)
TrailingFences(text) ==
  IF Inked(text) # << >> /\ Inked(text)[Len(Inked(text))] = Fence
  THEN 1 + TrailingFences(SubSeq(Inked(text), 1, Len(Inked(text)) - 1))
  ELSE 0

\* the response is the JSON text of a delta, bare or between an opening
\* fence, with json or without, and a closing fence, either of which may be
\* missing, with white space anywhere around them
FencedOrBare ==
  /\ pc = "parsed"
  /\ "delta" \in DOMAIN inputs.core
  /\ Inked(inputs.prefix) \in {<< >>, <<FenceJson>>, <<Fence>>}
  /\ Inked(inputs.suffix) \in {<< >>, <<Fence>>}

\* C24: a response that is the JSON text of a delta between fences, with
\* white space around them, is cleaned to that JSON text, parsed directly,
\* and yields the delta the bare text yields; no more than one fence is cut
\* off the start and one off the end of a response.
C24_FencedParsesAsBare ==
  /\ FencedOrBare =>
       /\ returned.cleaned = inputs.core.text
       /\ returned.direct
       /\ "delta" \in DOMAIN returned
       /\ returned.delta = inputs.core.delta
  /\ pc = "parsed" /\ inputs.core.text # << >> =>
       /\ LeadingFences(returned.cleaned) >= LeadingFences(llmResponse) - 1
       /\ TrailingFences(returned.cleaned) >= TrailingFences(llmResponse) - 1

\* a delta with nodes between a json fence and a closing fence, each with
\* white space before and after it
C24_Witness ==
  /\ FencedOrBare
  /\ Inked(inputs.prefix) = <<FenceJson>>
  /\ Len(inputs.prefix) >= 3
  /\ Inked(inputs.suffix) = <<Fence>>
  /\ Len(inputs.suffix) >= 3
  /\ "addNodes" \in DOMAIN returned.delta
  /\ returned.delta = inputs.core.delta

(***************************************************************************)
(* C25                                                                     *)
(***************************************************************************)
\* the places of the braces of a text
Places(text, tok) == {i \in DOMAIN text : text[i] = tok}

\* a text has a { and, after the first of them, a }
HasBraced(text) ==
  /\ Places(text, Open) # {}
  /\ \E i \in Places(text, Close) : i > Min(Places(text, Open))

\* the part of a text from its first { to its last }
Braced(text) == SubSeq(text, Min(Places(text, Open)), Max(Places(text, Close)))

\* the text is the text of one JSON value
IsJsonText(text) ==
  \E j \in {v.json : v \in GoodValues} \cup BadValues : text = TextOf(j)

Threw == "thrown" \in DOMAIN returned /\ "delta" \notin DOMAIN returned

\* C25: when the cleaned text is not JSON, what is parsed is its part from
\* the first { to the last }. A JSON object with prose before it, after it
\* or both, the prose having no brace, yields the object's delta; a text
\* without such a part, and a text whose part is not JSON, as two objects
\* with prose between them, make the call throw, and no delta is returned.
C25_FirstToLastBrace ==
  pc = "parsed" /\ ~returned.direct =>
    /\ IF ~HasBraced(returned.cleaned)
       THEN Threw /\ returned.thrown = "Could not find valid JSON in response"
       ELSE /\ \A v \in GoodValues :
                 Braced(returned.cleaned) = TextOf(v.json) =>
                   "delta" \in DOMAIN returned /\ returned.delta = v.delta
            /\ ~IsJsonText(Braced(returned.cleaned)) => Threw
    /\ "delta" \in DOMAIN inputs.core
         /\ Places(inputs.prefix \o inputs.suffix, Open) = {}
         /\ Places(inputs.prefix \o inputs.suffix, Close) = {}
         /\ IsObject(inputs.core.value) =>
           "delta" \in DOMAIN returned /\ returned.delta = inputs.core.delta
    /\ Cardinality(Places(inputs.core.text, Open)) = 2
         /\ Prose \in ToSet(inputs.core.text) => Threw

\* a delta with nodes, prose before it and prose after it
C25_Witness ==
  /\ pc = "parsed"
  /\ ~returned.direct
  /\ Prose \in ToSet(inputs.prefix)
  /\ Prose \in ToSet(inputs.suffix)
  /\ Places(inputs.prefix \o inputs.suffix, Open) = {}
  /\ Places(inputs.prefix \o inputs.suffix, Close) = {}
  /\ "delta" \in DOMAIN returned
  /\ "addNodes" \in DOMAIN returned.delta
  /\ returned.delta = inputs.core.delta

(***************************************************************************)
(* C26                                                                     *)
(***************************************************************************)
\* the shapes of types.ts, of values of the model
IsStrings(list) == \A i \in DOMAIN list : list[i] \in STRING

IsNodeData(data) ==
  /\ DOMAIN data \subseteq {"summary", "methods", "fields", "filePath"}
  /\ \A k \in DOMAIN data \cap {"summary", "filePath"} : data[k] \in STRING
  /\ \A k \in DOMAIN data \cap {"methods", "fields"} : IsStrings(data[k])

IsGraphNode(n) ==
  /\ DOMAIN n = {"id", "kind", "label", "position", "data"}
  /\ n.id \in STRING
  /\ n.label \in STRING
  /\ n.kind \in NodeKinds
  /\ DOMAIN n.position = {"x", "y"}
  /\ n.position.x \in Int
  /\ n.position.y \in Int
  /\ IsNodeData(n.data)

IsNodeUpdate(u) ==
  /\ "id" \in DOMAIN u
  /\ DOMAIN u \subseteq {"id", "label", "kind", "data"}
  /\ u.id \in STRING
  /\ Has(u, "label") => u.label \in STRING
  /\ Has(u, "kind") => u.kind \in NodeKinds
  /\ Has(u, "data") => IsNodeData(u.data)

IsGraphEdge(e) ==
  /\ {"id", "source", "target", "kind"} \subseteq DOMAIN e
  /\ DOMAIN e \subseteq {"id", "source", "target", "kind", "data"}
  /\ e.id \in STRING
  /\ e.source \in STRING
  /\ e.target \in STRING
  /\ e.kind \in EdgeKinds
  /\ Has(e, "data") =>
       /\ DOMAIN e.data \subseteq {"description"}
       /\ Has(e.data, "description") => e.data.description \in STRING

IsGraphDelta(d) ==
  /\ DOMAIN d \subseteq ToSet(FieldNames)
  /\ \A i \in DOMAIN ListOf(d, "addNodes") : IsGraphNode(d.addNodes[i])
  /\ \A i \in DOMAIN ListOf(d, "updateNodes") : IsNodeUpdate(d.updateNodes[i])
  /\ \A i \in DOMAIN ListOf(d, "addEdges") : IsGraphEdge(d.addEdges[i])
  /\ IsStrings(ListOf(d, "removeNodeIds"))
  /\ IsStrings(ListOf(d, "removeEdgeIds"))

\* C26: a delta that parseAndValidateDelta returns has the shape of the
\* GraphDelta schema; when the value parsed is not an object, has a field of
\* the wrong type, has an addNodes, updateNodes or addEdges entry without a
\* required field, or has a kind outside its enum, the call throws
\* 'Invalid GraphDelta' and returns no delta, whatever else the value holds.
C26_OnlySchemaValidDeltas ==
  pc = "parsed" =>
    /\ "delta" \in DOMAIN returned => IsGraphDelta(returned.delta)
    /\ "parsed" \in DOMAIN returned /\ returned.parsed \in BadValues =>
         Threw /\ returned.thrown = "Invalid GraphDelta"
    /\ "value" \in DOMAIN inputs.core
         /\ inputs.core.value \in BadValues
         /\ Places(inputs.prefix \o inputs.suffix, Open) = {} =>
           Threw

\* a value parsed whose addNodes has an entry that passes and one without a
\* position, and whose removeNodeIds passes, made the call throw
C26_Witness ==
  /\ pc = "parsed"
  /\ "parsed" \in DOMAIN returned
  /\ returned.parsed \in MissingFields
  /\ "removeNodeIds" \in DOMAIN returned.parsed.members
  /\ GraphNodeSchema(returned.parsed.members.addNodes.items[1]).success
  /\ Threw
  /\ returned.thrown = "Invalid GraphDelta"

(***************************************************************************)
(* C27                                                                     *)
(***************************************************************************)
\* the caps, the order, the warnings and the meta of the state in the prompt
PromptCaps ==
  LET cutNodes == Len(prior.nodes) > 50
      kept == IF cutNodes THEN SubSeq(prior.nodes, 1, 50) ELSE prior.nodes
      surviving == {i \in DOMAIN prior.edges :
                      \/ ~cutNodes
                      \/ /\ prior.edges[i].source \in Ids(kept)
                         /\ prior.edges[i].target \in Ids(kept)}
      cutEdges == Cardinality(surviving) > 100
  IN /\ Len(returned.nodes) <= 50
     /\ returned.nodes = kept
     /\ Len(returned.edges) <= 100
     /\ IsFiltered(returned.edges, prior.edges,
                   {k \in surviving : Cardinality({i \in surviving : i <= k}) <= 100})
     /\ cutNodes <=> \E i \in DOMAIN warned : warned[i].trimming = "nodes"
     /\ cutEdges <=> \E i \in DOMAIN warned : warned[i].trimming = "edges"
     /\ returned.meta = prior.meta

\* C27 as stated: the state in the prompt has at most 50 nodes, the first 50
\* of the state given, and at most 100 edges, the first 100 of those that
\* survive the cut of the nodes; every edge of it has its source and its
\* target among its nodes; a warning is logged when nodes are cut and when
\* edges are cut; meta is the meta given.
C27_PromptGraphIntact ==
  pc = "trimmed" => PromptCaps /\ NoDangling(returned)

\* C27 as amended: the same, but every edge of the state in the prompt has
\* its source and its target among its nodes only if the nodes were cut or
\* every edge of the state given had them among the nodes of that state.
C27_PromptGraphCapped ==
  pc = "trimmed" =>
    /\ PromptCaps
    /\ Len(prior.nodes) > 50 \/ NoDangling(prior) => NoDangling(returned)

\* nodes were cut, edges were dropped with them, and more than 100 were left
C27_Witness ==
  /\ pc = "trimmed"
  /\ Len(prior.nodes) > 50
  /\ Len(returned.nodes) = 50
  /\ Len(warned) = 2
  /\ Len(returned.edges) = 100
  /\ warned[2].from < Len(prior.edges)
  /\ ~NoDangling(prior)

(***************************************************************************)
(* C30                                                                     *)
(***************************************************************************)
\* the ids the delta both removes and adds
Replaced == ToSet(ListOf(delta, "removeNodeIds")) \cap Ids(ListOf(delta, "addNodes"))

\* the first addNodes entry with the id, and the updateNodes entries with it
FirstAdded(id) ==
  delta.addNodes[Min({i \in DOMAIN delta.addNodes : delta.addNodes[i].id = id})]

UpdatesOf(id) == SelectSeq(ListOf(delta, "updateNodes"), LAMBDA u : u.id = id)

\* a node with updates applied to it one after another
RECURSIVE AppliedInOrder(_, _)
AppliedInOrder(node, updates) ==
  IF updates = << >> THEN node
  ELSE AppliedInOrder(UpdatedNode(node, Head(updates)), Tail(updates))

\* the result has one node with the id
OnlyNodeWith(id) ==
  state.nodes[CHOOSE j \in DOMAIN state.nodes : state.nodes[j].id = id]

\* an edge of the state given that is at the node with the id is not in the
\* result, unless addEdges has an entry with the id of that edge; and an
\* addEdges entry at that node, with a free id and both its ends in the
\* result, is in the result
ReplacedEdges(id) ==
  /\ \A i \in DOMAIN prior.edges :
       id \in {prior.edges[i].source, prior.edges[i].target} =>
         \/ prior.edges[i] \notin ToSet(state.edges)
         \/ prior.edges[i].id \in Ids(ListOf(delta, "addEdges"))
  /\ \A i \in DOMAIN ListOf(delta, "addEdges") :
       LET e == delta.addEdges[i]
       IN /\ id \in {e.source, e.target}
          /\ {e.source, e.target} \subseteq Ids(state.nodes)
          /\ \A k \in 1 .. i - 1 : delta.addEdges[k].id # e.id
          /\ \A k \in DOMAIN prior.edges :
               prior.edges[k].id = e.id =>
                 \/ prior.edges[k].id \in ToSet(ListOf(delta, "removeEdgeIds"))
                 \/ prior.edges[k].source \in ToSet(delta.removeNodeIds)
                 \/ prior.edges[k].target \in ToSet(delta.removeNodeIds)
          => e \in ToSet(state.edges)

\* C30 as stated: when a delta removes an id and adds a node with that id,
\* the result has exactly one node with that id; it is the addNodes entry
\* with every updateNodes entry for that id applied to it, in list order;
\* and the edges of the state given at that node are gone, except for ids
\* that addEdges adds again.
C30_ReplacedNodeEveryUpdate ==
  pc = "done" =>
    \A id \in Replaced :
      /\ Cardinality({j \in DOMAIN state.nodes : state.nodes[j].id = id}) = 1
      /\ OnlyNodeWith(id) = AppliedInOrder(FirstAdded(id), UpdatesOf(id))
      /\ ReplacedEdges(id)

\* what the code does: the same, with the last updateNodes entry for that id
\* as the only one applied
C30_ReplacedNodeLastUpdate ==
  pc = "done" =>
    \A id \in Replaced :
      /\ Cardinality({j \in DOMAIN state.nodes : state.nodes[j].id = id}) = 1
      /\ OnlyNodeWith(id) =
           (IF UpdatesOf(id) = << >> THEN FirstAdded(id)
            ELSE UpdatedNode(FirstAdded(id), UpdatesOf(id)[Len(UpdatesOf(id))]))
      /\ ReplacedEdges(id)

\* a node with two edges was replaced and updated once, one of its edges
\* came back through addEdges and the other did not
C30_Witness ==
  /\ pc = "done"
  /\ \E id \in Replaced :
       /\ Len(UpdatesOf(id)) = 1
       /\ OnlyNodeWith(id) # FirstAdded(id)
       /\ id \in Ids(prior.nodes)
       /\ Cardinality({i \in DOMAIN prior.edges :
                         id \in {prior.edges[i].source, prior.edges[i].target}}) = 2
       /\ Len(state.edges) = 1
       /\ state.edges[1] \in ToSet(ListOf(delta, "addEdges"))
       /\ id \in {state.edges[1].source, state.edges[1].target}

(***************************************************************************)
(* C21                                                                     *)
(***************************************************************************)
\* the request is over: the handler has answered, or the panel has shown
\* the answer
Over == pc \in {"responded", "failed", "shown"}

\* nothing was merged and nothing was written: the row is the row that was
\* read, the delta is empty
NothingApplied ==
  /\ ~chat.merged
  /\ delta = EmptyDelta
  /\ writes = << >>
  /\ store # NoRow /\ store.parses => store.state = prior

\* the graph state the caller is left with is the state the merge would have
\* started from: the server hands it back, the browser pipeline hands
\* nothing back, and the page shows it in the end
LeftWithPrior ==
  /\ chat.side = "server" =>
       Has(returned.body, "graphState") /\ returned.body.graphState = prior
  /\ chat.side = "client" => "value" \notin DOMAIN returned
  /\ pc = "shown" => page.graphState = prior

\* the last message of the chat panel
LastMessage == page.messages[Len(page.messages)]

\* C21: when the text of the model is not the text of a delta, because it is
\* not JSON or because the schema refuses it, be it for one entry of one
\* list, nothing of it is applied: no merge runs, nothing is written to the
\* store, the caller is left with the prior state, and a message tells the
\* user of the failure.
C21_RefusedTextChangesNothing ==
  Over /\ llmResponse \in BadReplyTexts =>
    /\ NothingApplied
    /\ LeftWithPrior
    /\ IF chat.side = "server"
       THEN returned.body.assistantMessage = "I couldn't parse the AI response"
       ELSE returned.thrown = "Couldn't parse AI response"
    /\ pc = "shown" =>
         /\ LastMessage.role = "assistant"
         /\ LastMessage.content \in
              { <<"I couldn't parse the AI response">>,
                <<"Error: ", "Couldn't parse AI response">> }

\* the model sent two nodes to add, one without a position, and an id to
\* remove that the canonical state has; the server had a row, the page an
\* older state; the page now shows the row's state, with that node
C21_Witness ==
  /\ pc = "shown"
  /\ chat.side = "server"
  /\ llmResponse \in {TextOf(j) : j \in MissingFields}
  /\ \E i \in DOMAIN llmResponse :
       /\ "members" \in DOMAIN llmResponse[i]
       /\ "removeNodeIds" \in DOMAIN llmResponse[i].members
       /\ llmResponse[i].members.removeNodeIds.items[1].str \in Ids(prior.nodes)
  /\ store # NoRow
  /\ store.parses
  /\ state # prior
  /\ page.graphState = prior
  /\ Len(page.messages) = 2

(***************************************************************************)
(* C22                                                                     *)
(***************************************************************************)
\* the model was called and the call failed
CallFailed == Over /\ chat.message # "" /\ chat.reply.outcome = "fails"

\* the model answered and its text was refused
TextRefused == Over /\ "thrown" \in DOMAIN chat.result

\* C22: when the call of the model fails, there is no text to parse, nothing
\* is merged or written, and the prior state is handed back as it was; the
\* server answers 500 with an error field, while for a refused text it
\* answers 200 with assistantMessage and graphState only; the browser
\* pipeline throws 'Failed to get response from AI', while for a refused
\* text it throws 'Couldn't parse AI response'.
C22_CallFailureTold ==
  /\ CallFailed =>
       /\ llmResponse = NoText
       /\ chat.result = NoData
       /\ NothingApplied
       /\ LeftWithPrior
       /\ IF chat.side = "server"
          THEN /\ returned.status = 500
               /\ Has(returned.body, "error")
               /\ returned.body.error = "Failed to get response from AI"
          ELSE returned.thrown = "Failed to get response from AI"
  /\ TextRefused =>
       IF chat.side = "server"
       THEN /\ returned.status = 200
            /\ DOMAIN returned.body = {"assistantMessage", "graphState"}
       ELSE returned.thrown = "Couldn't parse AI response"

\* the call failed on the server, which had a row; the page, which held an
\* older state, shows the row's state and the server's message
C22_Witness ==
  /\ CallFailed
  /\ pc = "shown"
  /\ chat.side = "server"
  /\ returned.status = 500
  /\ store # NoRow
  /\ store.parses
  /\ store.state.nodes # << >>
  /\ state # prior
  /\ page.graphState = store.state
  /\ LastMessage.content = <<"Sorry, I encountered an error">>

(***************************************************************************)
(* C23                                                                     *)
(***************************************************************************)
\* the server has answered, and not with the result of a merge
AnsweredWithoutMerge ==
  /\ chat.side = "server"
  /\ pc \in {"responded", "failed"}
  /\ ~(pc = "responded" /\ chat.merged)

\* C23: every answer of POST /api/chat that is not the result of a merge,
\* for a message that is missing, a model call that failed, a text that was
\* refused, a store that failed, has a message for the user and the prior
\* graph state, as it was.
C23_EveryFailureHandsStateBack ==
  AnsweredWithoutMerge =>
    /\ Has(returned.body, "error") \/ Has(returned.body, "assistantMessage")
    /\ Has(returned.body, "graphState")
    /\ returned.body.graphState = prior

\* what the code does: the prior state comes with the answer when the model
\* call failed and when its text was refused, and with no other failure
C23_StateBackAfterModelFailures ==
  AnsweredWithoutMerge =>
    /\ Has(returned.body, "error") \/ Has(returned.body, "assistantMessage")
    /\ IF pc = "responded" /\ chat.message # ""
       THEN Has(returned.body, "graphState") /\ returned.body.graphState = prior
       ELSE DOMAIN returned.body = {"error"}

(***************************************************************************)
(* Requests of several sessions on one project: POST /api/chat and         *)
(* PUT /api/graph, each reading the row and writing it in separate steps   *)
(***************************************************************************)
\* the requests served before the run ends
MaxRequests == 3

\* the requests in flight at a time
Slots == {1, 2}

Idle == [at |-> "idle"]

StoreState(ns, es) ==
  [nodes |-> ns, edges |-> es,
   meta |-> [projectId |-> ProjectId, updatedAt |-> CreatedAt]]

\* an edge of a request body whose target is no node of the body
StrayEdge == [id |-> "e9", source |-> "a", target |-> "z", kind |-> "calls"]

\* the graphState of a chat request: it is used when the project has no row
ChatBodies ==
  { StoreState(<< >>, << >>),
    StoreState(<<StateNodes[1]>>, <<StrayEdge>>) }

\* the bodies of PUT /api/graph: they pass GraphStateSchema, which checks
\* neither the ids nor the endpoints
PutBodies ==
  { StoreState(<<StateNodes[1], StateNodes[2]>>, <<StateEdges[1]>>),
    StoreState(<<StateNodes[1], StateNodes[4]>>, << >>),
    StoreState(<<StateNodes[2]>>, <<StrayEdge>>) }

\* the JSON a page sends for a state
JsonOfState(s) ==
  JObj([nodes |-> JArr([i \in DOMAIN s.nodes |-> JsonOfNode(s.nodes[i])]),
        edges |-> JArr([i \in DOMAIN s.edges |-> JsonOfRecord(s.edges[i])]),
        meta |-> JObj([projectId |-> JStr(s.meta.projectId),
                       updatedAt |-> JStr(s.meta.updatedAt)])])

\* bodies GraphStateSchema refuses: no meta, a node of an unknown kind
BadPutJson ==
  { JObj([nodes |-> JArr(<<JsonOfNode(StateNodes[1])>>), edges |-> JArr(<< >>)]),
    JObj([nodes |-> JArr(<<JsonOfNode([StateNodes[1] EXCEPT !.kind = "lambda"])>>),
          edges |-> JArr(<< >>),
          meta |-> JObj([projectId |-> JStr(ProjectId),
                         updatedAt |-> JStr(CreatedAt)])]) }

PutJson == {JsonOfState(s) : s \in PutBodies} \cup BadPutJson

\* the deltas the model's replies parse to
StoreDeltas ==
  { [addNodes |-> <<GraphNode("c", "api", "C", 0, 0, NoData)>>],
    [addNodes |-> <<GraphNode("b", "db", "B", 0, 0, NoData)>>,
     addEdges |-> <<[id |-> "e2", source |-> "a", target |-> "b",
                     kind |-> "queries"]>>],
    [removeNodeIds |-> <<"a">>] }

InitStore ==
  /\ store = NoRow
  /\ writes = << >>
  /\ reqs = [slot \in Slots |-> Idle]
  /\ returned = [slot \in Slots |-> NoData]
  /\ inputs = [started |-> 0]
  /\ state = createEmptyGraphState(ProjectId, CreatedAt)
  /\ prior = state
  /\ delta = EmptyDelta
  /\ warned = << >>
  /\ now = CreatedAt
  /\ layoutArgs = NoLayoutArgs
  /\ llmResponse = NoText
  /\ page = NoPage
  /\ chat = NoChat
  /\ pc = "serve"

\* POST /api/chat up to the call of the model: the row is read, and the
\* request waits for the reply
ChatBegin(slot) ==
  /\ pc = "serve"
  /\ reqs[slot] = Idle
  /\ inputs.started < MaxRequests
  /\ \E body \in ChatBodies :
       reqs' = [reqs EXCEPT ![slot] =
                  [at |-> "chat", canonical |-> CanonicalState(store, body),
                   body |-> body, seen |-> Len(writes)]]
  /\ inputs' = [started |-> inputs.started + 1]
  /\ UNCHANGED <<state, prior, delta, warned, now, layoutArgs, returned,
                 store, chat, llmResponse, page, writes, pc>>

\* the call of the model fails (500) or its text is refused (200): the
\* answer carries the state that was read, and nothing is written
ChatRefuse(slot) ==
  /\ pc = "serve"
  /\ reqs[slot].at = "chat"
  /\ \/ /\ returned' = [returned EXCEPT ![slot] =
                          [status |-> 500,
                           body |-> [error |-> "Failed to get response from AI",
                                     assistantMessage |->
                                       "Sorry, I encountered an error",
                                     graphState |-> reqs[slot].canonical]]]
        /\ warned' = Append(warned, [error |-> "LLM call failed"])
     \/ /\ returned' = [returned EXCEPT ![slot] =
                          [status |-> 200,
                           body |-> [assistantMessage |->
                                       "I couldn't parse the AI response",
                                     graphState |-> reqs[slot].canonical]]]
        /\ warned' = Append(warned, [error |-> "Failed to parse LLM response"])
  /\ reqs' = [reqs EXCEPT ![slot] = Idle]
  /\ UNCHANGED <<state, prior, delta, inputs, now, layoutArgs, store, chat,
                 llmResponse, page, writes, pc>>

\* a slip: the delta is merged into the row as it is when the request writes
ChatWrite_Rebase(slot) ==
  /\ pc = "serve"
  /\ reqs[slot].at = "chat"
  /\ \E d \in StoreDeltas, t \in Times :
       \E out \in {chatMerge(CanonicalState(store, reqs[slot].canonical),
                              d, t)} :
          /\ store' = Row(out.newState)
          /\ writes' = Append(writes,
                              [by |-> slot, kind |-> "chat",
                               base |-> reqs[slot].canonical,
                               body |-> reqs[slot].body,
                               delta |-> d,
                               seen |-> reqs[slot].seen,
                               state |-> out.newState])
          /\ warned' = warned \o out.warnings
          /\ returned' = [returned EXCEPT ![slot] =
                            [status |-> 200,
                             body |-> [assistantMessage |-> out.assistantMessage,
                                       graphState |-> out.newState]]]
  /\ reqs' = [reqs EXCEPT ![slot] = Idle]
  /\ UNCHANGED <<state, prior, delta, inputs, now, layoutArgs, chat,
                 llmResponse, page, pc>>

\* POST /api/chat from the parsed delta on: layout, merge into the state
\* that was read, validation (a warning at most), the write of the row, 200
ChatWrite(slot) ==
  /\ pc = "serve"
  /\ reqs[slot].at = "chat"
  /\ \E d \in StoreDeltas, t \in Times :
       \E out \in {chatMerge(reqs[slot].canonical, d, t)} :
          /\ store' = Row(out.newState)
          /\ writes' = Append(writes,
                              [by |-> slot, kind |-> "chat",
                               base |-> reqs[slot].canonical,
                               body |-> reqs[slot].body,
                               delta |-> d,
                               seen |-> reqs[slot].seen,
                               state |-> out.newState])
          /\ warned' = warned \o out.warnings
          /\ returned' = [returned EXCEPT ![slot] =
                            [status |-> 200,
                             body |-> [assistantMessage |-> out.assistantMessage,
                                       graphState |-> out.newState]]]
  /\ reqs' = [reqs EXCEPT ![slot] = Idle]
  /\ UNCHANGED <<state, prior, delta, inputs, now, layoutArgs, chat,
                 llmResponse, page, pc>>

\* a page holds a graph it has read and edited, and sends it: the request
\* is on its way
PutBegin(slot) ==
  /\ pc = "serve"
  /\ reqs[slot] = Idle
  /\ inputs.started < MaxRequests
  /\ \E body \in PutJson :
       reqs' = [reqs EXCEPT ![slot] =
                  [at |-> "put", body |-> body, seen |-> Len(writes)]]
  /\ inputs' = [started |-> inputs.started + 1]
  /\ UNCHANGED <<state, prior, delta, warned, now, layoutArgs, returned,
                 store, chat, llmResponse, page, writes, pc>>

\* a slip: the result of validateGraphState is logged and the body is
\* written all the same, as POST /api/chat does
PutWrite_WarnOnly(slot) ==
  /\ pc = "serve"
  /\ reqs[slot].at = "put"
  /\ \E parseResult \in {GraphStateSchema(reqs[slot].body)} :
        IF ~parseResult.success
        THEN /\ returned' = [returned EXCEPT ![slot] =
                               [status |-> 400,
                                body |-> [error |-> "Invalid graph state"]]]
             /\ UNCHANGED <<store, writes, now>>
        ELSE \E t \in Times :
               LET graphState ==
                     [parseResult.data EXCEPT !.meta.updatedAt = t]
               IN /\ now' = t
                  /\ store' = Row(graphState)
                  /\ writes' = Append(writes,
                                      [by |-> slot, kind |-> "put",
                                       base |-> parseResult.data,
                                       body |-> parseResult.data,
                                       delta |-> EmptyDelta,
                                       seen |-> reqs[slot].seen,
                                       state |-> graphState])
                  /\ returned' = [returned EXCEPT ![slot] =
                                    [status |-> 200, body |-> graphState]]
  /\ reqs' = [reqs EXCEPT ![slot] = Idle]
  /\ UNCHANGED <<state, prior, delta, warned, inputs, layoutArgs, chat,
                 llmResponse, page, pc>>

\* PUT /api/graph: 400 for a body GraphStateSchema refuses and for a state
\* validateGraphState refuses, otherwise the timestamp, the write of the row
\* and 200 with the state
PutWrite(slot) ==
  /\ pc = "serve"
  /\ reqs[slot].at = "put"
  /\ \E parseResult \in {GraphStateSchema(reqs[slot].body)} :
        IF ~parseResult.success
        THEN /\ returned' = [returned EXCEPT ![slot] =
                               [status |-> 400,
                                body |-> [error |-> "Invalid graph state"]]]
             /\ UNCHANGED <<store, writes, now>>
        ELSE IF ~validateGraphState(parseResult.data).valid
        THEN /\ returned' = [returned EXCEPT ![slot] =
                               [status |-> 400,
                                body |-> [error |-> "Invalid graph structure"]]]
             /\ UNCHANGED <<store, writes, now>>
        ELSE \E t \in Times :
               LET graphState ==
                     [parseResult.data EXCEPT !.meta.updatedAt = t]
               IN /\ now' = t
                  /\ store' = Row(graphState)
                  /\ writes' = Append(writes,
                                      [by |-> slot, kind |-> "put",
                                       base |-> parseResult.data,
                                       body |-> parseResult.data,
                                       delta |-> EmptyDelta,
                                       seen |-> reqs[slot].seen,
                                       state |-> graphState])
                  /\ returned' = [returned EXCEPT ![slot] =
                                    [status |-> 200, body |-> graphState]]
  /\ reqs' = [reqs EXCEPT ![slot] = Idle]
  /\ UNCHANGED <<state, prior, delta, warned, inputs, layoutArgs, chat,
                 llmResponse, page, pc>>

NextStore ==
  \E slot \in Slots :
    \/ ChatBegin(slot)
    \/ ChatRefuse(slot)
    \/ ChatWrite(slot)
    \/ PutBegin(slot)
    \/ PutWrite(slot)

SpecStore == InitStore /\ [][NextStore]_vars

(***************************************************************************)
(* C28: persistence is last-writer-wins                                    *)
(***************************************************************************)
\* the node ids of the row before the j-th write
IdsBefore(j) == IF j = 1 THEN {} ELSE Ids(writes[j - 1].state.nodes)

\* the node ids the j-th write brought into the row, and those it took out
Brought(j) == Ids(writes[j].state.nodes) \ IdsBefore(j)

TookOut(j) == IdsBefore(j) \ Ids(writes[j].state.nodes)

\* the writes that happened between the read and the write of the k-th writer
Unseen(k) == writes[k].seen + 1 .. k - 1

\* the k-th write carries nothing of a write its writer did not see: a node
\* only that write brought in is not there, a node only that write took out
\* is there as the writer read it
Overwrites(k, j) ==
  LET w == writes[k]
      own == Ids(ListOf(w.delta, "addNodes"))
      gone == ToSet(ListOf(w.delta, "removeNodeIds"))
      read == Ids(w.base.nodes)
  IN /\ \A id \in Brought(j) \ (read \cup own) :
          id \notin Ids(w.state.nodes)
     /\ \A id \in (TookOut(j) \cap read) \ gone :
          id \in Ids(w.state.nodes)

LastWritten ==
  IF writes = << >> THEN NoRow ELSE Row(writes[Len(writes)].state)

\* a request that writes answers 200 with the state it wrote
WriteAnswered ==
  writes' # writes =>
    \E slot \in Slots :
      /\ writes'[Len(writes')].by = slot
      /\ returned'[slot].status = 200
      /\ "error" \notin DOMAIN returned'[slot].body
      /\ store' = Row(writes'[Len(writes')].state)

\* C28: when a request reads the row before another request writes it and
\* writes after it, both writes are answered 200 without a conflict, the
\* row is exactly the state written last, and what only the earlier writer
\* changed is not in it.
C28_LastWriterWins ==
  /\ [](/\ store = LastWritten
        /\ \A k \in DOMAIN writes : \A j \in Unseen(k) : Overwrites(k, j))
  /\ [][WriteAnswered]_vars

\* a chat request adds c; a PUT that was sent before it overwrites the row
\* without c; a second chat request that read the row with c overwrites the
\* PUT in its turn
C28_Witness ==
  /\ Len(writes) = 3
  /\ writes[1].kind = "chat" /\ writes[2].kind = "put"
  /\ writes[3].kind = "chat"
  /\ writes[2].seen = 0 /\ writes[3].seen = 1
  /\ "c" \in Brought(1) /\ "c" \in TookOut(2) /\ "c" \in Brought(3)
  /\ "b" \in Brought(2) /\ "b" \in TookOut(3)
  /\ store = Row(writes[3].state)

(***************************************************************************)
(* C29: what is written to the store                                       *)
(***************************************************************************)
\* distinct node ids, distinct edge ids, every endpoint a node of the state
WellFormed(s) ==
  /\ DistinctIds(s.nodes)
  /\ DistinctIds(s.edges)
  /\ NoDangling(s)

\* C29: every state written to the store, by PUT /api/graph or by
\* POST /api/chat, has distinct node ids, distinct edge ids and no edge with
\* a missing endpoint, whatever graphState the requests carry.
C29_EveryWriteWellFormed ==
  \A k \in DOMAIN writes : WellFormed(writes[k].state)

\* what holds: the states PUT /api/graph writes are well formed, and so is
\* every state a chat request writes when the state it merged into was
C29_WritesKeepWellFormed ==
  \A k \in DOMAIN writes :
    (writes[k].kind = "put" \/ WellFormed(writes[k].base))
      => WellFormed(writes[k].state)

\* a chat request on the empty store wrote a state with the stray edge of
\* its body
C29_Witness ==
  /\ writes # << >>
  /\ writes[1].kind = "chat"
  /\ ~NoDangling(writes[1].state)

(***************************************************************************)
(* C31                                                                     *)
(***************************************************************************)
\* the nodes step 4 works on: those left by step 1 and added by step 3
NodesBeforeUpdates == AddNodes(RemoveNodes(prior.nodes, delta), delta)

\* C31: every updateNodes entry that names a node is applied; several
\* entries for one id are merged into the node one after another, in list
\* order, so that a field only an earlier entry supplies is in the result
\* together with the fields of the later entries. A node no entry names is
\* left as it is.
C31_UpdatesMergedInOrder ==
  pc = "done" =>
    /\ Len(state.nodes) = Len(NodesBeforeUpdates)
    /\ \A i \in DOMAIN state.nodes :
         state.nodes[i] = AppliedInOrder(NodesBeforeUpdates[i],
                                         UpdatesOf(NodesBeforeUpdates[i].id))

\* what the code does: of the entries for one id only the last is applied
C31_LastUpdateOnly ==
  pc = "done" =>
    /\ Len(state.nodes) = Len(NodesBeforeUpdates)
    /\ \A i \in DOMAIN state.nodes :
         LET node == NodesBeforeUpdates[i]
             us == UpdatesOf(node.id)
         IN state.nodes[i] =
              (IF us = << >> THEN node ELSE UpdatedNode(node, us[Len(us)]))

(***************************************************************************)
(* C32                                                                     *)
(***************************************************************************)
\* the indices of the nodes and edges of the state given that survive the
\* removals, and of the addNodes and addEdges entries that are accepted
SurvivingNodes ==
  {i \in DOMAIN prior.nodes :
     prior.nodes[i].id \notin ToSet(ListOf(delta, "removeNodeIds"))}

SurvivingEdges ==
  {i \in DOMAIN prior.edges :
     /\ prior.edges[i].source \notin ToSet(ListOf(delta, "removeNodeIds"))
     /\ prior.edges[i].target \notin ToSet(ListOf(delta, "removeNodeIds"))
     /\ prior.edges[i].id \notin ToSet(ListOf(delta, "removeEdgeIds"))}

AcceptedNodes ==
  LET adds == ListOf(delta, "addNodes")
  IN {i \in DOMAIN adds :
        /\ \A k \in SurvivingNodes : prior.nodes[k].id # adds[i].id
        /\ \A k \in 1 .. i - 1 : adds[k].id # adds[i].id}

EndsInResult(e) == {e.source, e.target} \subseteq Ids(state.nodes)

AcceptedEdges ==
  LET adds == ListOf(delta, "addEdges")
  IN {i \in DOMAIN adds :
        /\ EndsInResult(adds[i])
        /\ \A k \in SurvivingEdges : prior.edges[k].id # adds[i].id
        /\ \A k \in 1 .. i - 1 :
             EndsInResult(adds[k]) => adds[k].id # adds[i].id}

IdsOf(seq) == [i \in DOMAIN seq |-> seq[i].id]

\* the node is the entry it comes from, unless updateNodes names it
SameUnlessUpdated(node, entry) ==
  node.id \notin Ids(ListOf(delta, "updateNodes")) => node = entry

\* C32: the nodes of the result are the nodes given that were not removed,
\* in their order, followed by the addNodes entries with an id not yet
\* there, in delta order, the first entry only of several with one id; the
\* edges of the result are the surviving edges followed by the accepted
\* addEdges entries, in the same way.
C32_SurvivorsThenAccepted ==
  pc = "done" =>
    LET n == Cardinality(SurvivingNodes)
        m == Cardinality(SurvivingEdges)
        kept == SubSeq(state.nodes, 1, n)
        added == SubSeq(state.nodes, n + 1, Len(state.nodes))
    IN /\ Len(state.nodes) = n + Cardinality(AcceptedNodes)
       /\ IsFiltered(IdsOf(kept), IdsOf(prior.nodes), SurvivingNodes)
       /\ IsFiltered(IdsOf(added), IdsOf(ListOf(delta, "addNodes")),
                     AcceptedNodes)
       /\ \A i \in DOMAIN kept : \A k \in SurvivingNodes :
            i = Cardinality({j \in SurvivingNodes : j <= k}) =>
              SameUnlessUpdated(kept[i], prior.nodes[k])
       /\ \A i \in DOMAIN added : \A k \in AcceptedNodes :
            i = Cardinality({j \in AcceptedNodes : j <= k}) =>
              SameUnlessUpdated(added[i], delta.addNodes[k])
       /\ Len(state.edges) = m + Cardinality(AcceptedEdges)
       /\ IsFiltered(SubSeq(state.edges, 1, m), prior.edges, SurvivingEdges)
       /\ IsFiltered(SubSeq(state.edges, m + 1, Len(state.edges)),
                     ListOf(delta, "addEdges"), AcceptedEdges)

\* of two addNodes entries with one new id the first was added after the
\* nodes that were there, and the second was dropped
C32_Witness ==
  /\ pc = "done"
  /\ SurvivingNodes # {}
  /\ Len(ListOf(delta, "addNodes")) = 2
  /\ AcceptedNodes = {1}
  /\ delta.addNodes[1].id = delta.addNodes[2].id
  /\ delta.addNodes[1] # delta.addNodes[2]
  /\ state.nodes[Len(state.nodes)] = delta.addNodes[1]

(***************************************************************************)
(* C33                                                                     *)
(***************************************************************************)
\* the row the writer of the k-th write found when it read the store
RowRead(k) ==
  IF writes[k].seen = 0 THEN NoRow ELSE Row(writes[writes[k].seen].state)

Graph(s) == [nodes |-> s.nodes, edges |-> s.edges]

\* a chat request that writes returns the graph it wrote
ChatAnswersWritten ==
  (writes' # writes /\ writes'[Len(writes')].kind = "chat") =>
    Graph(returned'[writes'[Len(writes')].by].body.graphState)
      = Graph(writes'[Len(writes')].state)

\* C33: when a chat request finds a row, it merges into the state of the
\* row: two chat requests that found the same row and got the same delta
\* from the model wrote and returned the same nodes and edges, whatever
\* graphState each carried; the graphState of a request is the base only
\* when it found no row.
C33_BodyWithoutInfluence ==
  /\ [](/\ \A j, k \in DOMAIN writes :
             /\ writes[j].kind = "chat" /\ writes[k].kind = "chat"
             /\ RowRead(j) # NoRow /\ RowRead(j) = RowRead(k)
             /\ writes[j].delta = writes[k].delta
             => Graph(writes[j].state) = Graph(writes[k].state)
        /\ \A k \in DOMAIN writes :
             writes[k].kind = "chat" =>
               writes[k].base = (IF RowRead(k) = NoRow THEN writes[k].body
                                 ELSE RowRead(k).state))
  /\ [][ChatAnswersWritten]_vars

\* two chat requests with different graphStates, one of them with a stray
\* edge, read the same row and got the same delta: they wrote the same graph
C33_Witness ==
  /\ Len(writes) = 3
  /\ writes[1].kind = "put"
  /\ writes[2].kind = "chat" /\ writes[3].kind = "chat"
  /\ writes[2].seen = 1 /\ writes[3].seen = 1
  /\ writes[2].delta = writes[3].delta
  /\ writes[2].body # writes[3].body
  /\ writes[2].body.nodes # << >>
  /\ Graph(writes[2].state) = Graph(writes[3].state)
  /\ Graph(writes[2].state) # Graph(writes[1].state)

(***************************************************************************)
(* C34                                                                     *)
(***************************************************************************)
\* the PUT request of the slot is answered in this step
PutAnswered(slot) == reqs[slot].at = "put" /\ reqs'[slot] = Idle

\* C34: a PUT whose body fails GraphStateSchema, or passes it with two nodes
\* of one id, two edges of one id or an edge with a missing endpoint, is
\* answered 400 and writes nothing: the row is as it was. A body that passes
\* both checks is answered 200 and becomes the row, nodes, edges and
\* projectId as sent, with updatedAt set to the time of the request.
C34_PutRefusesOrReplaces ==
  [][\A slot \in Slots :
       PutAnswered(slot) =>
         LET parsed == GraphStateSchema(reqs[slot].body)
         IN IF ~parsed.success \/ ~WellFormed(parsed.data)
            THEN /\ returned'[slot].status = 400
                 /\ "error" \in DOMAIN returned'[slot].body
                 /\ store' = store
                 /\ writes' = writes
            ELSE /\ returned'[slot].status = 200
                 /\ store' # NoRow /\ store'.parses
                 /\ Graph(store'.state) = Graph(parsed.data)
                 /\ store'.state.meta.projectId = parsed.data.meta.projectId
                 /\ store'.state.meta.updatedAt = now'
                 /\ now' \in Times
                 /\ returned'[slot].body = store'.state]_vars

\* a PUT replaced the row and refreshed updatedAt; after it one PUT was
\* refused by the schema and one for its stray edge, and the row stayed
C34_Witness ==
  /\ Len(writes) = 1 /\ writes[1].kind = "put"
  /\ store = Row(writes[1].state)
  /\ store.state.meta.updatedAt # writes[1].body.meta.updatedAt
  /\ inputs.started = 3
  /\ \A slot \in Slots : reqs[slot] = Idle /\ returned[slot] # NoData
  /\ {returned[slot].body : slot \in Slots} =
       {[error |-> "Invalid graph state"], [error |-> "Invalid graph structure"]}

(***************************************************************************)
(* The page: Home with its canvas and its chat panel, and the server it    *)
(* talks to (PUT /api/graph for the debounced saves, POST /api/chat)       *)
(***************************************************************************)
\* setTimeout(..., 1000) of Home.handleGraphChange and setTimeout(..., 500)
\* of GraphCanvas.handleNodesChange, in ms
SaveDelay == 1000

CanvasDelay == 500

\* time passes in steps of CanvasDelay, up to MaxTicks steps; the user acts
\* up to MaxActs times: an edit on the canvas or a message that is sent
MaxTicks == 3

MaxActs == 2

NoTimer == [pending |-> FALSE]

\* the graph of the project when the page is opened
PageStart ==
  StoreState(<<StateNodes[1], StateNodes[2]>>, <<StateEdges[1]>>)

\* the id onConnect gives a new edge: edge-<Date.now()>
EdgeIdAt(t) ==
  <<"edge-0", "edge-500", "edge-1000", "edge-1500", "edge-2000",
    "edge-2500">>[t \div CanvasDelay + 1]

\* what is typed into the chat box
InputValues == {<< >>, <<Ws>>, <<Ws, Tok("add a cache"), Ws>>}

\* the deltas the model's replies parse to
PageDeltas ==
  { [addNodes |-> <<GraphNode("c", "api", "C", 0, 0, NoData)>>],
    [removeNodeIds |-> <<"b">>] }

\* the positions the canvas shows: React Flow's copy of the nodes
Positions(s) == [i \in DOMAIN s.nodes |-> s.nodes[i].position]

InitPage ==
  /\ store = Row(PageStart)
  /\ page = [graphState |-> PageStart,
             rf |-> Positions(PageStart),
             messages |-> << >>,
             inputValue |-> << >>,
             isLoading |-> FALSE,
             saveTimer |-> NoTimer,
             canvasTimer |-> NoTimer]
  /\ reqs = [chat |-> Idle, puts |-> << >>]
  /\ inputs = [changes |-> << >>, saves |-> << >>, acts |-> 0]
  /\ writes = << >>
  /\ now = 0
  /\ warned = << >>
  /\ state = createEmptyGraphState(ProjectId, CreatedAt)
  /\ prior = state
  /\ delta = EmptyDelta
  /\ layoutArgs = NoLayoutArgs
  /\ returned = NoData
  /\ llmResponse = NoText
  /\ chat = NoChat
  /\ pc = "page"

\* a timer that is due runs before time goes on
Due(timer) == timer.pending /\ timer.due <= now

Tick ==
  /\ pc = "page"
  /\ now < MaxTicks * CanvasDelay
  /\ ~Due(page.saveTimer) /\ ~Due(page.canvasTimer)
  /\ now' = now + CanvasDelay
  /\ UNCHANGED <<state, prior, delta, warned, inputs, layoutArgs, returned,
                 store, chat, llmResponse, page, reqs, writes, pc>>

\* a slip in Home.handleGraphChange: a pending timer is left running, so
\* every change of a burst is saved
handleGraphChange_NoCancel(p, newState) ==
  [p EXCEPT !.graphState = newState,
            !.rf = Positions(newState),
            !.saveTimer = IF p.saveTimer.pending THEN p.saveTimer
                          ELSE [pending |-> TRUE, due |-> now + SaveDelay,
                                id |-> Len(inputs.changes) + 1,
                                state |-> newState]]

\* Home.handleGraphChange(newState): the page's state is set, a pending save
\* timer is cleared and a new one is started (its id: the number of the
\* call); the canvas takes the nodes of the new state (the effect on
\* graphState)
handleGraphChange(p, newState) ==
  [p EXCEPT !.graphState = newState,
            !.rf = Positions(newState),
            !.saveTimer = [pending |-> TRUE, due |-> now + SaveDelay,
                           id |-> Len(inputs.changes) + 1,
                           state |-> newState]]

ChangeNoted(newState) ==
  [inputs EXCEPT !.changes = Append(@, [at |-> now, state |-> newState])]

\* GraphCanvas.handleLabelChange(nodeId, newLabel)
LabelChange ==
  /\ pc = "page"
  /\ inputs.acts < MaxActs
  /\ \E i \in DOMAIN page.graphState.nodes, newLabel \in {"A2", "A3"},
        t \in Times :
       LET currentState == page.graphState
           newState == [currentState EXCEPT !.nodes[i].label = newLabel,
                                            !.meta.updatedAt = t]
       IN /\ i = 1
          /\ page' = handleGraphChange(page, newState)
          /\ inputs' = [ChangeNoted(newState) EXCEPT !.acts = @ + 1]
  /\ UNCHANGED <<state, prior, delta, warned, now, layoutArgs, returned,
                 store, chat, llmResponse, reqs, writes, pc>>

\* GraphCanvas.onConnect(connection): an edge of kind depends_on from the
\* first node to the last
Connect ==
  /\ pc = "page"
  /\ inputs.acts < MaxActs
  /\ Len(page.graphState.nodes) >= 2
  \* Date.now() gives two connections two ids
  /\ EdgeIdAt(now) \notin {page.graphState.edges[i].id :
                             i \in DOMAIN page.graphState.edges}
  /\ \E t \in Times :
       LET currentState == page.graphState
           newGraphEdge ==
             [id |-> EdgeIdAt(now),
              source |-> currentState.nodes[1].id,
              target |-> currentState.nodes[Len(currentState.nodes)].id,
              kind |-> "depends_on"]
           newState == [currentState EXCEPT
                          !.edges = Append(@, newGraphEdge),
                          !.meta.updatedAt = t]
       IN /\ page' = handleGraphChange(page, newState)
          /\ inputs' = [ChangeNoted(newState) EXCEPT !.acts = @ + 1]
  /\ UNCHANGED <<state, prior, delta, warned, now, layoutArgs, returned,
                 store, chat, llmResponse, reqs, writes, pc>>

\* GraphCanvas.handleNodesChange with a position change: the canvas moves
\* the node and starts its own timer, clearing a pending one
Drag ==
  /\ pc = "page"
  /\ inputs.acts < MaxActs
  /\ page.rf # << >>
  /\ page' = [page EXCEPT
                !.rf[1] = [x |-> page.rf[1].x + 40, y |-> page.rf[1].y],
                !.canvasTimer = [pending |-> TRUE, due |-> now + CanvasDelay]]
  /\ inputs' = [inputs EXCEPT !.acts = @ + 1]
  /\ UNCHANGED <<state, prior, delta, warned, now, layoutArgs, returned,
                 store, chat, llmResponse, reqs, writes, pc>>

\* the canvas timer runs: the nodes of the page's state get the positions
\* the canvas shows, and onGraphChange is called
DragSettled ==
  /\ pc = "page"
  /\ Due(page.canvasTimer)
  /\ \E t \in Times :
       LET current == page.graphState
           updatedGraphNodes ==
             [i \in DOMAIN current.nodes |->
                IF i \in DOMAIN page.rf
                THEN [current.nodes[i] EXCEPT !.position = page.rf[i]]
                ELSE current.nodes[i]]
           newState == [current EXCEPT !.nodes = updatedGraphNodes,
                                       !.meta.updatedAt = t]
       IN /\ page' = handleGraphChange([page EXCEPT !.canvasTimer = NoTimer],
                                       newState)
          /\ inputs' = ChangeNoted(newState)
  /\ UNCHANGED <<state, prior, delta, warned, now, layoutArgs, returned,
                 store, chat, llmResponse, reqs, writes, pc>>

\* the save timer runs: saveGraphState(newState) sends PUT /api/graph with
\* the state the timer was started with
SaveFires ==
  /\ pc = "page"
  /\ Due(page.saveTimer)
  /\ page' = [page EXCEPT !.saveTimer = NoTimer]
  /\ reqs' = [reqs EXCEPT !.puts = Append(@, JsonOfState(page.saveTimer.state))]
  /\ inputs' = [inputs EXCEPT
                  !.saves = Append(@, [at |-> now, timer |-> page.saveTimer.id,
                                       state |-> page.saveTimer.state])]
  /\ UNCHANGED <<state, prior, delta, warned, now, layoutArgs, returned,
                 store, chat, llmResponse, writes, pc>>

\* PUT /api/graph is served for one of the saves on their way; the page only
\* logs a response that is not ok
SaveServed ==
  /\ pc = "page"
  /\ \E k \in DOMAIN reqs.puts :
       /\ \E parseResult \in {GraphStateSchema(reqs.puts[k])} :
            IF parseResult.success /\ validateGraphState(parseResult.data).valid
            THEN /\ \E t \in Times :
                      LET graphState ==
                            [parseResult.data EXCEPT !.meta.updatedAt = t]
                      IN /\ store' = Row(graphState)
                         /\ writes' = Append(writes, [kind |-> "put",
                                                      state |-> graphState])
                 /\ UNCHANGED warned
            ELSE /\ warned' = Append(warned, [error |-> "Failed to save graph"])
                 /\ UNCHANGED <<store, writes>>
       /\ reqs' = [reqs EXCEPT !.puts = SubSeqAt(@, DOMAIN @ \ {k})]
  /\ UNCHANGED <<state, prior, delta, inputs, now, layoutArgs, returned,
                 chat, llmResponse, page, pc>>

\* the user types into the chat box
Type ==
  /\ pc = "page"
  /\ \E text \in InputValues \ {page.inputValue} :
       page' = [page EXCEPT !.inputValue = text]
  /\ UNCHANGED <<state, prior, delta, warned, inputs, now, layoutArgs,
                 returned, store, chat, llmResponse, reqs, writes, pc>>

\* the characters of a text, as a message of the panel holds them
Shown(text) == [i \in DOMAIN text |-> text[i].c]

\* data.assistantMessage || data.error || 'Something went wrong.'
AssistantContent(data) ==
  IF Has(data.body, "assistantMessage") THEN data.body.assistantMessage
  ELSE IF Has(data.body, "error") THEN <<data.body.error>>
  ELSE <<"Something went wrong.">>

\* a slip in ChatPanel.handleSubmit: the guard does not look at isLoading
Submit_WhileLoading ==
  /\ pc = "page"
  /\ LET message == trim(page.inputValue)
     IN IF message = << >>
        THEN /\ returned' = [submit |-> "ignored"]
             /\ UNCHANGED <<page, reqs, inputs>>
        ELSE /\ inputs.acts < MaxActs
             /\ page' = [page EXCEPT
                           !.messages = Append(@, [role |-> "user",
                                                   content |-> Shown(message)]),
                           !.inputValue = << >>,
                           !.isLoading = TRUE]
             /\ reqs' = [reqs EXCEPT
                           !.chat = [at |-> "sent", message |-> message,
                                     graphState |-> page.graphState]]
             /\ inputs' = [inputs EXCEPT !.acts = @ + 1]
             /\ returned' = [submit |-> "sent"]
  /\ UNCHANGED <<state, prior, delta, warned, now, layoutArgs, store, chat,
                 llmResponse, writes, pc>>

\* ChatPanel.handleSubmit up to the fetch: nothing happens for an empty
\* message or while a request is loading; otherwise the user message is
\* added, the box is emptied, isLoading is set and POST /api/chat is sent
Submit ==
  /\ pc = "page"
  /\ LET message == trim(page.inputValue)
     IN IF message = << >> \/ page.isLoading
        THEN /\ returned' = [submit |-> "ignored"]
             /\ UNCHANGED <<page, reqs, inputs>>
        ELSE /\ inputs.acts < MaxActs
             /\ page' = [page EXCEPT
                           !.messages = Append(@, [role |-> "user",
                                                   content |-> Shown(message)]),
                           !.inputValue = << >>,
                           !.isLoading = TRUE]
             /\ reqs' = [reqs EXCEPT
                           !.chat = [at |-> "sent", message |-> message,
                                     graphState |-> page.graphState]]
             /\ inputs' = [inputs EXCEPT !.acts = @ + 1]
             /\ returned' = [submit |-> "sent"]
  /\ UNCHANGED <<state, prior, delta, warned, now, layoutArgs, store, chat,
                 llmResponse, writes, pc>>

\* POST /api/chat up to the call of the model: the row is read
PageChatRead ==
  /\ pc = "page"
  /\ reqs.chat.at = "sent"
  /\ reqs' = [reqs EXCEPT
                !.chat = [at |-> "called",
                          canonical |-> CanonicalState(store,
                                                       reqs.chat.graphState)]]
  /\ UNCHANGED <<state, prior, delta, warned, inputs, now, layoutArgs,
                 returned, store, chat, llmResponse, page, writes, pc>>

\* POST /api/chat from the reply on: the call of the model fails (500), its
\* text is refused (200), or the delta is merged and the row written (200)
PageChatAnswer ==
  /\ pc = "page"
  /\ reqs.chat.at = "called"
  /\ LET canonical == reqs.chat.canonical
     IN \/ /\ reqs' = [reqs EXCEPT !.chat =
                         [at |-> "answered",
                          response |->
                            [status |-> 500,
                             body |-> [error |-> "Failed to get response from AI",
                                       assistantMessage |->
                                         <<"Sorry, I encountered an error">>,
                                       graphState |-> canonical]]]]
           /\ UNCHANGED <<store, writes>>
        \/ /\ reqs' = [reqs EXCEPT !.chat =
                         [at |-> "answered",
                          response |->
                            [status |-> 200,
                             body |-> [assistantMessage |->
                                         <<"I couldn't parse the AI response">>,
                                       graphState |-> canonical]]]]
           /\ UNCHANGED <<store, writes>>
        \/ \E d \in PageDeltas, t \in Times :
             \E out \in {chatMerge(canonical, d, t)} :
               /\ store' = Row(out.newState)
               /\ writes' = Append(writes, [kind |-> "chat",
                                            state |-> out.newState])
               /\ reqs' = [reqs EXCEPT !.chat =
                             [at |-> "answered",
                              response |->
                                [status |-> 200,
                                 body |-> [assistantMessage |->
                                             out.assistantMessage,
                                           graphState |-> out.newState]]]]
  /\ UNCHANGED <<state, prior, delta, warned, inputs, now, layoutArgs,
                 returned, chat, llmResponse, page, pc>>

\* a prisma call of POST /api/chat throws: 500 without a graph state
PageChatStoreFails ==
  /\ pc = "page"
  /\ reqs.chat.at \in {"sent", "called"}
  /\ reqs' = [reqs EXCEPT !.chat =
                [at |-> "answered",
                 response |-> [status |-> 500,
                               body |-> [error |-> "Internal server error"]]]]
  /\ UNCHANGED <<state, prior, delta, warned, inputs, now, layoutArgs,
                 returned, store, chat, llmResponse, page, writes, pc>>

\* ChatPanel.handleSubmit when fetch or response.json() throws: the catch
\* adds an error message, the finally resets isLoading
ChatThrows ==
  /\ pc = "page"
  /\ reqs.chat.at \in {"sent", "answered"}
  /\ page' = [page EXCEPT
                !.messages = Append(@, [role |-> "assistant",
                                        content |-> <<"Sorry, there was an error processing your request. Please try again.">>]),
                !.isLoading = FALSE]
  /\ warned' = Append(warned, [error |-> "Chat error"])
  /\ reqs' = [reqs EXCEPT !.chat = Idle]
  /\ UNCHANGED <<state, prior, delta, inputs, now, layoutArgs, returned,
                 store, chat, llmResponse, writes, pc>>

\* ChatPanel.handleSubmit after the response: the assistant message is
\* added; a graph state in the response goes to Home.handleGraphUpdate, which
\* sets the page's state and leaves the save timer alone; isLoading is reset
ChatArrives ==
  /\ pc = "page"
  /\ reqs.chat.at = "answered"
  /\ LET data == reqs.chat.response
         new == PanelGraphState("server", data)
         shown == [page EXCEPT
                     !.messages = Append(@, [role |-> "assistant",
                                             content |-> AssistantContent(data)]),
                     !.isLoading = FALSE]
     IN page' = IF new = NoData THEN shown
                ELSE [shown EXCEPT !.graphState = new.graphState,
                                   !.rf = Positions(new.graphState)]
  /\ reqs' = [reqs EXCEPT !.chat = Idle]
  /\ UNCHANGED <<state, prior, delta, warned, inputs, now, layoutArgs,
                 returned, store, chat, llmResponse, writes, pc>>

\* the chat panel alone
NextPanel ==
  \/ Type
  \/ Submit
  \/ PageChatRead
  \/ PageChatAnswer
  \/ PageChatStoreFails
  \/ ChatThrows
  \/ ChatArrives

NextPage ==
  \/ Tick
  \/ LabelChange
  \/ Connect
  \/ Drag
  \/ DragSettled
  \/ SaveFires
  \/ SaveServed
  \/ Type
  \/ Submit
  \/ PageChatRead
  \/ PageChatAnswer
  \/ PageChatStoreFails
  \/ ChatThrows
  \/ ChatArrives

SpecPage == InitPage /\ [][NextPage]_vars

\* the chat panel with what its requests can rely on: a handler that has
\* started runs to its end, and a fetch settles, so that a request is
\* served, and is answered or throws
SpecPanel ==
  /\ InitPage /\ [][NextPanel]_vars
  /\ WF_vars(PageChatRead)
  /\ WF_vars(PageChatAnswer \/ PageChatStoreFails)
  /\ WF_vars(ChatArrives \/ ChatThrows)

(***************************************************************************)
(* C35                                                                     *)
(***************************************************************************)
\* when the timer of the c-th call of handleGraphChange is due
DueOf(c) == inputs.changes[c].at + SaveDelay

\* the next call came before the timer of the c-th was due; no call came
\* before or when it was due
Cancelled(c) ==
  c < Len(inputs.changes) /\ inputs.changes[c + 1].at < DueOf(c)

Kept(c) ==
  c = Len(inputs.changes) \/ inputs.changes[c + 1].at > DueOf(c)

\* the saves issued for the c-th call: when its timer was due, with its state
SavesOf(c) ==
  {k \in DOMAIN inputs.saves :
     inputs.saves[k] = [at |-> DueOf(c), timer |-> c,
                        state |-> inputs.changes[c].state]}

\* the timer of the c-th call is running
TimerOf(c) ==
  page.saveTimer = [pending |-> TRUE, due |-> DueOf(c), id |-> c,
                    state |-> inputs.changes[c].state]

\* in the step of a call of handleGraphChange the page has the new state and
\* one timer, due SaveDelay later, for that state
ChangeTakesEffect ==
  inputs'.changes # inputs.changes =>
    LET c == Len(inputs'.changes)
    IN /\ page'.graphState = inputs'.changes[c].state
       /\ page'.saveTimer = [pending |-> TRUE, due |-> now + SaveDelay,
                             id |-> c, state |-> inputs'.changes[c].state]
       /\ inputs'.changes[c].at = now

\* C35: each call of handleGraphChange sets the page's state at once,
\* cancels the pending save timer and starts one of 1000 ms; of a burst of
\* calls, each less than 1000 ms after the one before, only the last is
\* saved, once, 1000 ms after it, with the state of that last call.
C35_DebouncedSave ==
  /\ [](/\ \A c \in DOMAIN inputs.changes :
             /\ Cancelled(c) => SavesOf(c) = {} /\ ~TimerOf(c)
             /\ Kept(c) =>
                  \/ Cardinality(SavesOf(c)) = 1 /\ ~TimerOf(c)
                  \/ SavesOf(c) = {} /\ TimerOf(c) /\ now <= DueOf(c)
        /\ \A k \in DOMAIN inputs.saves :
             \E c \in DOMAIN inputs.changes : ~Cancelled(c) /\ k \in SavesOf(c)
        /\ page.saveTimer.pending => inputs.changes # << >>
                                       /\ TimerOf(Len(inputs.changes)))
  /\ [][ChangeTakesEffect]_vars

\* two changes 500 ms apart with different states, and one save, 1000 ms
\* after the second, with the state of the second
C35_Witness ==
  /\ Len(inputs.changes) = 2
  /\ inputs.changes[2].at = inputs.changes[1].at + CanvasDelay
  /\ inputs.changes[1].state # inputs.changes[2].state
  /\ Len(inputs.saves) = 1
  /\ inputs.saves[1] = [at |-> inputs.changes[2].at + SaveDelay,
                        timer |-> 2, state |-> inputs.changes[2].state]
  /\ ~page.saveTimer.pending

(***************************************************************************)
(* C37                                                                     *)
(***************************************************************************)
\* no timer is pending and no request is on its way
Quiescent ==
  /\ ~page.saveTimer.pending
  /\ ~page.canvasTimer.pending
  /\ reqs.chat = Idle
  /\ reqs.puts = << >>

\* C37: whenever the application is quiescent, the persisted state has the
\* nodes and edges of the state the page holds; a debounced save that was
\* scheduled before a chat response arrived does not replace the persisted
\* chat result with the state before the chat.
C37_QuiescentPageIsPersisted ==
  Quiescent => Graph(store.state) = Graph(page.graphState)

\* what holds: without a chat request, and with every save accepted, the
\* quiescent page and the store agree
C37_AgreeWithoutChat ==
  (Quiescent /\ page.messages = << >> /\ warned = << >>)
    => Graph(store.state) = Graph(page.graphState)

\* the run the claim names: a change started the save timer, a chat request
\* was answered and its result persisted and shown, and then the timer's
\* save replaced the row with the state from before the chat
C37_StaleSaveOverwrote ==
  /\ Quiescent
  /\ Len(writes) = 2
  /\ writes[1].kind = "chat" /\ writes[2].kind = "put"
  /\ Graph(page.graphState) = Graph(writes[1].state)
  /\ Graph(store.state) = Graph(inputs.changes[1].state)
  /\ Graph(store.state) # Graph(page.graphState)

(***************************************************************************)
(* C36                                                                     *)
(***************************************************************************)
InFlight == reqs.chat # Idle

\* the messages of the panel are a user message and its answer, in turn
InTurn ==
  \A i \in DOMAIN page.messages :
    page.messages[i].role = (IF i % 2 = 1 THEN "user" ELSE "assistant")

\* a call of handleSubmit that finds isLoading set, or nothing but white
\* space in the box, leaves the panel and the requests as they are
RefusedSubmitIsIdle ==
  (returned' # returned /\ (page.isLoading \/ trim(page.inputValue) = << >>))
    => page' = page /\ reqs' = reqs

\* a request is sent only by a panel that is not loading, with the trimmed
\* text of the box, and sets isLoading; the end of a request resets it
RequestSetsAndResets ==
  /\ (~InFlight /\ InFlight') =>
       /\ ~page.isLoading /\ page'.isLoading
       /\ reqs'.chat.message = trim(page.inputValue)
       /\ reqs'.chat.message # << >>
       /\ page'.messages = Append(page.messages,
                                  [role |-> "user",
                                   content |-> Shown(reqs'.chat.message)])
  /\ (InFlight /\ ~InFlight') =>
       /\ ~page'.isLoading
       /\ Len(page'.messages) = Len(page.messages) + 1

\* C36: the chat panel has at most one request in flight. A submit while
\* isLoading is set, or with a box that is empty or holds only white space,
\* sends nothing and adds no message; a submit that is accepted sets
\* isLoading; and isLoading is reset when the request ends, with an answer,
\* with an error or with an exception, which it eventually does.
C36_OneRequestAtATime ==
  /\ [](InTurn /\ (page.isLoading <=> InFlight))
  /\ [][RefusedSubmitIsIdle /\ RequestSetsAndResets]_vars
  /\ (page.isLoading ~> ~page.isLoading)

\* a message is in the box while a request is loading, and the last submit
\* was ignored
C36_Witness ==
  /\ page.isLoading
  /\ InFlight
  /\ trim(page.inputValue) # << >>
  /\ returned = [submit |-> "ignored"]
  /\ Len(page.messages) = 1

(***************************************************************************)
(* C38: merging the same delta a second time changes nothing               *)
(***************************************************************************)
\* the nodes of s as a set: id, kind, label, position and data of each
NodeSet(s) == ToSet(s.nodes)

\* the edges of s as a set
EdgeSet(s) == ToSet(s.edges)

\* C38: when a state that passes validateGraphState has had a delta merged
\* into it and the same delta is merged into the result, the second result
\* has the same set of nodes and the same set of edges as the first; only
\* the order of the lists and updatedAt may differ.
C38_ReapplyIsHarmless ==
  (pc = "reapplied" /\ validateGraphState(prior).valid)
    => /\ NodeSet(state) = NodeSet(returned.first)
       /\ EdgeSet(state) = EdgeSet(returned.first)

\* a valid state with an edge, and a delta that changed both its nodes and
\* its edges, has been merged twice
C38_Witness ==
  /\ pc = "reapplied"
  /\ validateGraphState(prior).valid
  /\ prior.edges # << >>
  /\ NodeSet(returned.first) # NodeSet(prior)
  /\ EdgeSet(returned.first) # EdgeSet(prior)

(***************************************************************************)
(* The same request on the server and in the browser                       *)
(*                                                                         *)
(* A request is served by POST /api/chat; then processChatClientSide is    *)
(* given the state the server merged into and the text the model returned  *)
(* to the server.  inputs keeps what the browser pipeline came to, next to *)
(* the server's answer in returned.                                        *)
(***************************************************************************)
InitPair ==
  /\ InitChat
  /\ chat.side = "server"
  /\ chat.message # ""

\* what the model call of the server came to
ServerReply ==
  IF llmResponse = NoText THEN [outcome |-> "fails"]
  ELSE [outcome |-> "text", text |-> llmResponse]

\* processChatClientSide({message, graphState, llmConfig}) with the server's
\* canonical state as graphState and the same outcome of the model call
ChatInBrowser ==
  /\ pc = "shown"
  /\ chat.side = "server"
  /\ \E t \in Times :
       inputs' = [graphState |-> prior,
                  client |-> processChatClientSide(prior, ServerReply, t)]
  /\ pc' = "compared"
  /\ UNCHANGED <<state, prior, delta, warned, now, layoutArgs, returned,
                 store, chat, llmResponse, page, reqs, writes>>

NextPair == NextChat \/ ChatInBrowser

SpecPair == InitPair /\ [][NextPair]_vars

(***************************************************************************)
(* C39: the browser pipeline and the server pipeline agree                 *)
(***************************************************************************)
\* a call of the store threw on the server
StoreThrew == Has(returned.body, "error") /\ returned.body.error = "Internal server error"

\* the server did not come to a new state: the model call failed or its
\* text was refused
ServerFailed == ~chat.merged

BrowserFailed == "thrown" \in DOMAIN inputs.client

\* C39: for the same prior state and the same text of the model, the server
\* (its store working) and the browser pipeline fail on the same texts, and
\* a failure changes no state: the server writes nothing and answers with
\* the canonical state, the browser pipeline throws; where they succeed they
\* return the same nodes, the same edges and the same assistant summary.
C39_PipelinesAgree ==
  (pc = "compared" /\ ~StoreThrew)
    => /\ ServerFailed <=> BrowserFailed
       /\ ServerFailed =>
            /\ writes = << >>
            /\ returned.body.graphState = prior
            /\ "value" \notin DOMAIN inputs.client
       /\ ~ServerFailed =>
            /\ inputs.client.value.graphState.nodes = returned.body.graphState.nodes
            /\ inputs.client.value.graphState.edges = returned.body.graphState.edges
            /\ inputs.client.value.assistantMessage = returned.body.assistantMessage

\* both pipelines laid out and merged a node into a state that had nodes,
\* from a text between fences
C39_Witness ==
  /\ pc = "compared"
  /\ ~StoreThrew
  /\ ~ServerFailed
  /\ prior.nodes # << >>
  /\ Len(inputs.client.value.graphState.nodes) > Len(prior.nodes)
  /\ Head(llmResponse) = Prose

\* both pipelines refused a text
C39_WitnessRefused ==
  /\ pc = "compared"
  /\ llmResponse # NoText
  /\ ServerFailed
  /\ BrowserFailed

(***************************************************************************)
(* One chat request on a graph that may pass the caps of the prompt        *)
(***************************************************************************)
\* deltas for the large graphs: a node beyond the node cap is removed and a
\* node added; a node beyond the cap is updated and an edge beyond the edge
\* cap removed; an edge is added between two nodes beyond the cap
BigDeltas ==
  { [removeNodeIds |-> <<ToString(MAX_NODES + 5)>>,
     addNodes |-> <<GraphNode("queue", "queue", "Queue", 0, 0, NoData)>>],
    [updateNodes |-> <<[id |-> ToString(MAX_NODES + 1), label |-> "Renamed"]>>,
     removeEdgeIds |-> <<ToString(MAX_EDGES + 1)>>],
    [addEdges |-> <<[id |-> "new", source |-> ToString(MAX_NODES + 1),
                     target |-> ToString(MAX_NODES + 2), kind |-> "calls"]>>] }

BigReplies ==
  {[outcome |-> "fails"], [outcome |-> "text", text |-> <<Prose, Ws, Prose>>]}
    \cup {[outcome |-> "text", text |-> TextOf(JsonOfDelta(d))] : d \in BigDeltas}

InitBig ==
  /\ chat \in {[side |-> sd, message |-> "add a queue", reply |-> r,
                result |-> NoData, merged |-> FALSE, parsed |-> EmptyDelta] :
                 sd \in {"server", "client"}, r \in BigReplies}
  /\ store \in {NoRow} \cup {Row(s) : s \in PromptStates}
  /\ chat.side = "client" => store = NoRow
  /\ state \in PromptStates \cup {StaleState}
  /\ store # NoRow <=> state = StaleState
  /\ prior = state
  /\ delta = EmptyDelta
  /\ warned = << >>
  /\ inputs = NoData
  /\ now = CreatedAt
  /\ layoutArgs = NoLayoutArgs
  /\ returned = NoData
  /\ llmResponse = NoText
  /\ page = [graphState |-> state,
             messages |-> <<[role |-> "user", content |-> chat.message]>>]
  /\ reqs = NoRequests
  /\ writes = << >>
  /\ pc = "chat"

SpecBig == InitBig /\ [][NextChat]_vars

(***************************************************************************)
(* C40: trimming touches only the copy in the prompt                       *)
(***************************************************************************)
\* the request was made on a graph that passes a cap
PassesCap(s) == Len(s.nodes) > MAX_NODES \/ Len(s.edges) > MAX_EDGES

\* the nodes and edges of s that the prompt leaves out
LeftOutNodes(s, prompt) == ToSet(s.nodes) \ ToSet(prompt.nodes)
LeftOutEdges(s, prompt) == ToSet(s.edges) \ ToSet(prompt.edges)

RemovedNodeIds(d) == IF Has(d, "removeNodeIds") THEN ToSet(d.removeNodeIds) ELSE {}
RemovedEdgeIds(d) == IF Has(d, "removeEdgeIds") THEN ToSet(d.removeEdgeIds) ELSE {}
UpdatedNodeIds(d) == IF Has(d, "updateNodes") THEN {u.id : u \in ToSet(d.updateNodes)} ELSE {}

====
